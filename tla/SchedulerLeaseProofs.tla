------------------------- MODULE SchedulerLeaseProofs -------------------------
(***************************************************************************)
(* Proofs about SchedulerLease, for every number of instances and          *)
(* connectors, every tick, interval and skew.                              *)
(*                                                                         *)
(* That one leader acts at a time is not inductive: it needs to know that  *)
(* a leader's lease was written in the tick that still runs (LeaseIsFresh),*)
(* and that a claim works with the clock reading that began its tick.      *)
(* That scheduled scans keep their interval needs, on top of this, that    *)
(* what a leader found due stays due until it has handled it               *)
(* (DueStaysDue), which holds because nobody else acts in between.         *)
(* That a dead leader is replaced in time has an invariant of its own      *)
(* (FailoverInv): nobody sleeps past a tick, the lease of the dead leader  *)
(* expires soon, and whoever is alive asks for it again before the bound.  *)
(* It needs no assumption on the length of the lease.                      *)
(***************************************************************************)
EXTENDS SchedulerLease, TLAPS

Acting == Leading \cup {"claim"}

\* Ticks: none began in the future, none lasts longer than TickWork.
TicksAreShort ==
    \A i \in Instance :
        /\ since[i] <= time
        /\ phase[i] \in Acting => time <= since[i] + TickWork

\* A claim works with the clock reading its tick began with.
ClaimReadsClock ==
    \A i \in Instance : phase[i] = "claim" => read[i] = since[i] + Skew[i]

\* A leader holds the lease, and claimed it in the tick that still runs.
LeaseIsFresh ==
    \A i \in Instance : phase[i] \in Leading =>
        /\ lease.by = i
        /\ lease.exp = since[i] + Skew[i] + Ttl

LeaseInv == LeaseTypeOK /\ TicksAreShort /\ ClaimReadsClock /\ LeaseIsFresh

\* A scheduled scan is one of the committed scans of its connector.
FiredIsCommitted ==
    \A c \in Connector : Never <= fired[c] /\ fired[c] <= last[c]

\* Within a tick the clock is read in order.
ClockAdvances ==
    \A i \in Instance :
        /\ phase[i] \in {"fire", "commit"} => read[i] <= time + Skew[i]
        /\ phase[i] = "commit" => read[i] <= firing[i] /\ Never < firing[i]

\* What the leader found due and has not handled is as due as it was.
DueStaysDue ==
    \A i \in Instance : phase[i] \in {"fire", "commit"} =>
        \A c \in due[i] :
            fired[c] = Never \/ read[i] - fired[c] >= Interval[c]

SpacingInv == LeaseInv /\ FiredIsCommitted /\ ClockAdvances /\ DueStaysDue

-----------------------------------------------------------------------------
(* Types.                                                                  *)

LEMMA InitTypes == LeaseInit => LeaseTypeOK
  BY TimingIsSane DEF LeaseInit, LeaseTypeOK, Never

LEMMA NextTypes == LeaseTypeOK /\ [LeaseNext]_leaseVars => LeaseTypeOK'
  <1> SUFFICES ASSUME LeaseTypeOK, [LeaseNext]_leaseVars PROVE LeaseTypeOK'
    OBVIOUS
  <1> USE TimingIsSane DEF LeaseTypeOK, Leading, Enter, Sleep, ForgetTick, Clock
  <1>1. CASE Pass
    BY <1>1 DEF Pass
  <1>2. ASSUME NEW i \in Instance, Start(i) PROVE LeaseTypeOK'
    BY <1>2 DEF Start
  <1>3. ASSUME NEW i \in Instance, Wake(i) PROVE LeaseTypeOK'
    BY <1>3 DEF Wake
  <1>4. ASSUME NEW i \in Instance, Claim(i) PROVE LeaseTypeOK'
    BY <1>4 DEF Claim, Ttl
  <1>5. ASSUME NEW i \in Instance, Skip(i) PROVE LeaseTypeOK'
    BY <1>5 DEF Skip
  <1>6. ASSUME NEW i \in Instance, Check(i) PROVE LeaseTypeOK'
    BY <1>6 DEF Check
  <1>7. ASSUME NEW i \in Instance, Fire(i) PROVE LeaseTypeOK'
    BY <1>7 DEF Fire
  <1>8. ASSUME NEW i \in Instance, Commit(i) PROVE LeaseTypeOK'
    BY <1>8 DEF Commit, Handled
  <1>9. ASSUME NEW i \in Instance, CommitFails(i) PROVE LeaseTypeOK'
    BY <1>9 DEF CommitFails, Handled
  <1>10. ASSUME NEW i \in Instance, NEW c \in Connector, Manual(i, c)
         PROVE LeaseTypeOK'
    BY <1>10 DEF Manual
  <1>11. ASSUME NEW i \in Instance, InstanceDies(i) PROVE LeaseTypeOK'
    BY <1>11 DEF InstanceDies
  <1>12. CASE UNCHANGED leaseVars
    BY <1>12 DEF leaseVars
  <1> QED
    BY <1>1, <1>2, <1>3, <1>4, <1>5, <1>6, <1>7, <1>8, <1>9, <1>10, <1>11,
       <1>12 DEF LeaseNext

\* The variables keep their types.
THEOREM TypesHold == LeaseSpec => []LeaseTypeOK
  BY InitTypes, NextTypes, PTL DEF LeaseSpec

-----------------------------------------------------------------------------
(* One leader.                                                             *)

LEMMA InitTimes == LeaseInit => TicksAreShort /\ ClaimReadsClock /\ LeaseIsFresh
  BY DEF LeaseInit, TicksAreShort, ClaimReadsClock, LeaseIsFresh, Acting, Leading

LEMMA NextTimes ==
  LeaseTypeOK /\ TicksAreShort /\ ClaimReadsClock /\ [LeaseNext]_leaseVars
    => TicksAreShort' /\ ClaimReadsClock'
  <1> SUFFICES ASSUME LeaseTypeOK, TicksAreShort, ClaimReadsClock, [LeaseNext]_leaseVars
               PROVE  TicksAreShort' /\ ClaimReadsClock'
    OBVIOUS
  <1> USE TimingIsSane DEF LeaseTypeOK, TicksAreShort, ClaimReadsClock, Acting,
          Leading, Enter, Sleep, ForgetTick, Clock, Alive
  <1>1. CASE Pass
    <2>1. ASSUME NEW i \in Instance, phase[i] \in Acting
          PROVE  time < since[i] + TickWork
      <3>1. Alive(i) /\ phase[i] # "sleep"
        BY <2>1
      <3>2. Alive(i) => time < since[i] + (IF phase[i] = "sleep" THEN Tick
                                                               ELSE TickWork)
        BY <1>1 DEF Pass
      <3> QED BY <3>1, <3>2
    <2> QED BY <2>1, <1>1 DEF Pass
  <1>2. ASSUME NEW i \in Instance, Start(i)
        PROVE TicksAreShort' /\ ClaimReadsClock'
    BY <1>2 DEF Start
  <1>3. ASSUME NEW i \in Instance, Wake(i)
        PROVE TicksAreShort' /\ ClaimReadsClock'
    BY <1>3 DEF Wake
  <1>4. ASSUME NEW i \in Instance, Claim(i)
        PROVE TicksAreShort' /\ ClaimReadsClock'
    BY <1>4 DEF Claim
  <1>5. ASSUME NEW i \in Instance, Skip(i)
        PROVE TicksAreShort' /\ ClaimReadsClock'
    BY <1>5 DEF Skip
  <1>6. ASSUME NEW i \in Instance, Check(i)
        PROVE TicksAreShort' /\ ClaimReadsClock'
    BY <1>6 DEF Check
  <1>7. ASSUME NEW i \in Instance, Fire(i)
        PROVE TicksAreShort' /\ ClaimReadsClock'
    BY <1>7 DEF Fire
  <1>8. ASSUME NEW i \in Instance, Commit(i)
        PROVE TicksAreShort' /\ ClaimReadsClock'
    BY <1>8 DEF Commit, Handled
  <1>9. ASSUME NEW i \in Instance, CommitFails(i)
        PROVE TicksAreShort' /\ ClaimReadsClock'
    BY <1>9 DEF CommitFails, Handled
  <1>10. ASSUME NEW i \in Instance, NEW c \in Connector, Manual(i, c)
         PROVE TicksAreShort' /\ ClaimReadsClock'
    BY <1>10 DEF Manual
  <1>11. ASSUME NEW i \in Instance, InstanceDies(i)
         PROVE TicksAreShort' /\ ClaimReadsClock'
    BY <1>11 DEF InstanceDies
  <1>12. CASE UNCHANGED leaseVars
    BY <1>12 DEF leaseVars
  <1> QED
    BY <1>1, <1>2, <1>3, <1>4, <1>5, <1>6, <1>7, <1>8, <1>9, <1>10, <1>11,
       <1>12 DEF LeaseNext

\* A claim is granted to i only while nobody else leads: a leader's lease
\* runs from the start of its tick, which is at most TickWork ago.
LEMMA GrantedAlone ==
  ASSUME LeaseInv, LeaseOutlastsTick,
         NEW i \in Instance, phase[i] = "claim", Granted(i)
  PROVE  \A j \in Instance : phase[j] \notin Leading
  <1> SUFFICES ASSUME NEW j \in Instance, phase[j] \in Leading PROVE FALSE
    OBVIOUS
  <1> USE TimingIsSane DEF LeaseInv, LeaseTypeOK, Acting
  <1>1. lease.by = j /\ lease.exp = since[j] + Skew[j] + Ttl
    BY DEF LeaseIsFresh
  <1>2. read[i] = since[i] + Skew[i]
    BY DEF ClaimReadsClock
  <1>3. since[i] <= time /\ time <= since[j] + TickWork
    BY DEF TicksAreShort
  <1>4. TickWork + Skew[i] - Skew[j] <= Ttl
    BY DEF LeaseOutlastsTick
  <1>5. Ttl \in Int
    BY DEF Ttl
  <1>6. ~(lease.exp < read[i])
    BY <1>1, <1>2, <1>3, <1>4, <1>5
  <1>7. i # j
    BY DEF Leading
  <1> QED
    BY <1>1, <1>6, <1>7 DEF Granted

LEMMA NextFresh ==
  LeaseOutlastsTick /\ LeaseInv /\ [LeaseNext]_leaseVars => LeaseIsFresh'
  <1> SUFFICES ASSUME LeaseOutlastsTick, LeaseInv, [LeaseNext]_leaseVars
               PROVE  LeaseIsFresh'
    OBVIOUS
  <1> USE TimingIsSane DEF LeaseInv, LeaseTypeOK, LeaseIsFresh, Leading, Enter,
          Sleep, ForgetTick
  <1>1. CASE Pass
    BY <1>1 DEF Pass
  <1>2. ASSUME NEW i \in Instance, Start(i) PROVE LeaseIsFresh'
    BY <1>2 DEF Start
  <1>3. ASSUME NEW i \in Instance, Wake(i) PROVE LeaseIsFresh'
    BY <1>3 DEF Wake
  <1>4. ASSUME NEW i \in Instance, Claim(i) PROVE LeaseIsFresh'
    <2>1. phase[i] = "claim" /\ Granted(i)
      BY <1>4 DEF Claim
    <2>2. \A j \in Instance : phase[j] \notin Leading
      BY <2>1, GrantedAlone
    <2>3. \A j \in Instance : phase'[j] \in Leading => j = i
      BY <2>2, <1>4 DEF Claim
    <2>4. lease' = [by |-> i, exp |-> since[i] + Skew[i] + Ttl]
      BY <2>1, <1>4 DEF Claim, ClaimReadsClock
    <2>5. since' = since
      BY <1>4 DEF Claim
    <2> QED BY <2>3, <2>4, <2>5
  <1>5. ASSUME NEW i \in Instance, Skip(i) PROVE LeaseIsFresh'
    BY <1>5 DEF Skip
  <1>6. ASSUME NEW i \in Instance, Check(i) PROVE LeaseIsFresh'
    BY <1>6 DEF Check
  <1>7. ASSUME NEW i \in Instance, Fire(i) PROVE LeaseIsFresh'
    BY <1>7 DEF Fire
  <1>8. ASSUME NEW i \in Instance, Commit(i) PROVE LeaseIsFresh'
    BY <1>8 DEF Commit, Handled
  <1>9. ASSUME NEW i \in Instance, CommitFails(i) PROVE LeaseIsFresh'
    BY <1>9 DEF CommitFails, Handled
  <1>10. ASSUME NEW i \in Instance, NEW c \in Connector, Manual(i, c)
         PROVE LeaseIsFresh'
    BY <1>10 DEF Manual
  <1>11. ASSUME NEW i \in Instance, InstanceDies(i) PROVE LeaseIsFresh'
    BY <1>11 DEF InstanceDies
  <1>12. CASE UNCHANGED leaseVars
    BY <1>12 DEF leaseVars
  <1> QED
    BY <1>1, <1>2, <1>3, <1>4, <1>5, <1>6, <1>7, <1>8, <1>9, <1>10, <1>11,
       <1>12 DEF LeaseNext

\* LeaseOutlastsTick speaks of constants only: it holds always or never.
LEMMA LeaseInvHolds == LeaseSpec => [](LeaseOutlastsTick => LeaseInv)
  <1>1. LeaseInit => (LeaseOutlastsTick => LeaseInv)
    BY InitTypes, InitTimes DEF LeaseInv
  <1>2. (LeaseOutlastsTick => LeaseInv) /\ [LeaseNext]_leaseVars
          => (LeaseOutlastsTick => LeaseInv)'
    <2>1. LeaseOutlastsTick' <=> LeaseOutlastsTick
      BY DEF LeaseOutlastsTick, Ttl
    <2> QED
      BY <2>1, NextTypes, NextTimes, NextFresh DEF LeaseInv
  <1> QED
    BY <1>1, <1>2, PTL DEF LeaseSpec

LEMMA FreshIsAlone == LeaseIsFresh =>
  \A i, j \in Instance : phase[i] \in Leading /\ phase[j] \in Leading => i = j
  BY DEF LeaseIsFresh

\* At most one app instance fires scheduled scans at any time, whatever the
\* number of instances, as long as the lease of two ticks is longer than a
\* tick's work plus the difference of the clocks.
THEOREM OneLeader == LeaseSpec => []OneLeaderActs
  <1>1. (LeaseOutlastsTick => LeaseInv) => OneLeaderActs
    BY FreshIsAlone DEF LeaseInv, OneLeaderActs
  <1> QED
    BY <1>1, LeaseInvHolds, PTL

-----------------------------------------------------------------------------
(* The distance of scheduled scans.                                        *)

LEMMA InitSpacing == LeaseInit => FiredIsCommitted /\ ClockAdvances /\ DueStaysDue
  BY DEF LeaseInit, FiredIsCommitted, ClockAdvances, DueStaysDue, Never

LEMMA NextClock ==
  LeaseTypeOK /\ FiredIsCommitted /\ ClockAdvances /\ [LeaseNext]_leaseVars
    => FiredIsCommitted' /\ ClockAdvances'
  <1> DEFINE Goal == FiredIsCommitted' /\ ClockAdvances'
  <1> SUFFICES ASSUME LeaseTypeOK, FiredIsCommitted, ClockAdvances, [LeaseNext]_leaseVars
               PROVE  Goal
    OBVIOUS
  <1> USE TimingIsSane DEF LeaseTypeOK, FiredIsCommitted, ClockAdvances, Leading,
          Enter, Sleep, ForgetTick, Clock, Never
  <1>1. CASE Pass
    BY <1>1 DEF Pass
  <1>2. ASSUME NEW i \in Instance, Start(i) PROVE Goal
    BY <1>2 DEF Start
  <1>3. ASSUME NEW i \in Instance, Wake(i) PROVE Goal
    BY <1>3 DEF Wake
  <1>4. ASSUME NEW i \in Instance, Claim(i) PROVE Goal
    BY <1>4 DEF Claim
  <1>5. ASSUME NEW i \in Instance, Skip(i) PROVE Goal
    BY <1>5 DEF Skip
  <1>6. ASSUME NEW i \in Instance, Check(i) PROVE Goal
    BY <1>6 DEF Check
  <1>7. ASSUME NEW i \in Instance, Fire(i) PROVE Goal
    BY <1>7 DEF Fire
  <1>8. ASSUME NEW i \in Instance, Commit(i) PROVE Goal
    BY <1>8 DEF Commit, Handled
  <1>9. ASSUME NEW i \in Instance, CommitFails(i) PROVE Goal
    BY <1>9 DEF CommitFails, Handled
  <1>10. ASSUME NEW i \in Instance, NEW c \in Connector, Manual(i, c)
         PROVE Goal
    BY <1>10 DEF Manual
  <1>11. ASSUME NEW i \in Instance, InstanceDies(i) PROVE Goal
    BY <1>11 DEF InstanceDies
  <1>12. CASE UNCHANGED leaseVars
    BY <1>12 DEF leaseVars
  <1> QED
    BY <1>1, <1>2, <1>3, <1>4, <1>5, <1>6, <1>7, <1>8, <1>9,
       <1>10, <1>11, <1>12
       DEF LeaseNext

\* A step of one leader disturbs no other: nobody else is leading.
LEMMA NextDue ==
  LeaseOutlastsTick /\ SpacingInv /\ [LeaseNext]_leaseVars => DueStaysDue'
  <1> SUFFICES ASSUME LeaseOutlastsTick, SpacingInv, [LeaseNext]_leaseVars
               PROVE  DueStaysDue'
    OBVIOUS
  <1> USE TimingIsSane DEF SpacingInv, LeaseInv, LeaseTypeOK, DueStaysDue, Enter,
          Sleep, ForgetTick
  <1>1. CASE Pass
    BY <1>1 DEF Pass
  <1>2. ASSUME NEW i \in Instance, Start(i) PROVE DueStaysDue'
    BY <1>2 DEF Start
  <1>3. ASSUME NEW i \in Instance, Wake(i) PROVE DueStaysDue'
    BY <1>3 DEF Wake
  <1>4. ASSUME NEW i \in Instance, Claim(i) PROVE DueStaysDue'
    BY <1>4 DEF Claim
  <1>5. ASSUME NEW i \in Instance, Skip(i) PROVE DueStaysDue'
    BY <1>5 DEF Skip
  <1>6. ASSUME NEW i \in Instance, Check(i) PROVE DueStaysDue'
    <2>1. CASE {c \in Connector : IsDue(c, Clock(i))} = {}
      BY <1>6, <2>1 DEF Check
    <2>2. CASE {c \in Connector : IsDue(c, Clock(i))} # {}
      <3>1. /\ due' = [due EXCEPT ![i] = {c \in Connector : IsDue(c, Clock(i))}]
            /\ read' = [read EXCEPT ![i] = Clock(i)]
            /\ phase' = [phase EXCEPT ![i] = "fire"]
            /\ fired' = fired
        BY <1>6, <2>2 DEF Check
      <3>2. ASSUME NEW c \in Connector, IsDue(c, Clock(i))
            PROVE  fired[c] = Never \/ Clock(i) - fired[c] >= Interval[c]
        <4>1. Never <= fired[c] /\ fired[c] <= last[c]
          BY DEF FiredIsCommitted
        <4>2. CASE last[c] = Never
          BY <4>1, <4>2 DEF Never
        <4>3. CASE Clock(i) - last[c] >= Interval[c]
          BY <4>1, <4>3 DEF Clock
        <4> QED BY <3>2, <4>2, <4>3 DEF IsDue
      <3> QED BY <3>1, <3>2
    <2> QED BY <2>1, <2>2
  <1>7. ASSUME NEW i \in Instance, Fire(i) PROVE DueStaysDue'
    BY <1>7 DEF Fire
  <1>8. ASSUME NEW i \in Instance, Commit(i) PROVE DueStaysDue'
    <2>1. PICK c \in due[i] :
            /\ fired' = [fired EXCEPT ![c] = firing[i]]
            /\ Handled(i, c)
      BY <1>8 DEF Commit
    <2>2. phase[i] = "commit"
      BY <1>8 DEF Commit
    <2>3. \A j \in Instance : phase[j] \in Leading => j = i
      BY <2>2, FreshIsAlone DEF Leading
    <2>4. \A j \in Instance : phase'[j] \in {"fire", "commit"} =>
            /\ j = i
            /\ due'[i] = due[i] \ {c}
            /\ read' = read
      BY <2>1, <2>3 DEF Handled, Leading
    <2> QED BY <2>1, <2>2, <2>4
  <1>9. ASSUME NEW i \in Instance, CommitFails(i) PROVE DueStaysDue'
    BY <1>9 DEF CommitFails, Handled
  <1>10. ASSUME NEW i \in Instance, NEW c \in Connector, Manual(i, c)
         PROVE DueStaysDue'
    BY <1>10 DEF Manual
  <1>11. ASSUME NEW i \in Instance, InstanceDies(i) PROVE DueStaysDue'
    BY <1>11 DEF InstanceDies
  <1>12. CASE UNCHANGED leaseVars
    BY <1>12 DEF leaseVars
  <1> QED
    BY <1>1, <1>2, <1>3, <1>4, <1>5, <1>6, <1>7, <1>8, <1>9,
       <1>10, <1>11, <1>12
       DEF LeaseNext

LEMMA SpacingInvHolds == LeaseSpec => [](LeaseOutlastsTick => SpacingInv)
  <1>1. LeaseInit => (LeaseOutlastsTick => SpacingInv)
    BY InitTypes, InitTimes, InitSpacing DEF SpacingInv, LeaseInv
  <1>2. (LeaseOutlastsTick => SpacingInv) /\ [LeaseNext]_leaseVars
          => (LeaseOutlastsTick => SpacingInv)'
    <2>1. LeaseOutlastsTick' <=> LeaseOutlastsTick
      BY DEF LeaseOutlastsTick, Ttl
    <2> QED
      BY <2>1, NextTypes, NextTimes, NextFresh, NextClock, NextDue
         DEF SpacingInv, LeaseInv
  <1> QED
    BY <1>1, <1>2, PTL DEF LeaseSpec

\* Only a commit changes the history of scheduled scans, and it commits a
\* connector that was due when its tick looked.
LEMMA StepIsSpaced ==
  LeaseOutlastsTick /\ SpacingInv /\ [LeaseNext]_leaseVars =>
    \A c \in Connector :
       fired'[c] # fired[c] /\ fired[c] # Never =>
          fired'[c] - fired[c] >= Interval[c]
  <1> DEFINE Spaced == \A c \in Connector :
               fired'[c] # fired[c] /\ fired[c] # Never =>
                  fired'[c] - fired[c] >= Interval[c]
  <1> SUFFICES ASSUME SpacingInv, [LeaseNext]_leaseVars PROVE Spaced
    OBVIOUS
  <1>1. ASSUME NEW i \in Instance, Commit(i) PROVE Spaced
    <2> USE TimingIsSane DEF SpacingInv, LeaseInv, LeaseTypeOK
    <2>1. PICK c \in due[i] : fired' = [fired EXCEPT ![c] = firing[i]]
      BY <1>1 DEF Commit
    <2>2. phase[i] = "commit"
      BY <1>1 DEF Commit
    <2>3. read[i] <= firing[i]
      BY <2>2 DEF ClockAdvances
    <2>4. fired[c] = Never \/ read[i] - fired[c] >= Interval[c]
      BY <2>2 DEF DueStaysDue
    <2>5. c \in Connector /\ firing[i] \in Int /\ read[i] \in Int
          /\ fired[c] \in Int /\ Interval[c] \in Int
      OBVIOUS
    <2>6. fired[c] # Never => firing[i] - fired[c] >= Interval[c]
      BY <2>3, <2>4, <2>5
    <2> QED BY <2>1, <2>6
  <1>2. CASE fired' = fired
    BY <1>2
  <1>3. fired' = fired \/ \E i \in Instance : Commit(i)
    BY DEF LeaseNext, Pass, Start, Wake, Claim, Skip, Check, Fire, CommitFails,
           Manual, InstanceDies, leaseVars
  <1> QED
    BY <1>1, <1>2, <1>3

\* Scheduled scans of a connector are at least its interval apart, for any
\* instances, deaths, failed commits and manual scans, under the same
\* condition on the lease.
THEOREM ScansAreSpaced == LeaseSpec => ScheduledScansAreSpaced
  <1>1. (LeaseOutlastsTick => SpacingInv) /\ [LeaseNext]_leaseVars =>
          [LeaseOutlastsTick =>
             \A c \in Connector :
                fired'[c] # fired[c] /\ fired[c] # Never =>
                    fired'[c] - fired[c] >= Interval[c]]_leaseVars
    BY StepIsSpaced
  <1> QED
    BY <1>1, SpacingInvHolds, PTL DEF LeaseSpec, ScheduledScansAreSpaced

-----------------------------------------------------------------------------
(* Failover.                                                               *)

\* How long after the death of the holder its lease may still keep j out.
Behind(j) == IF Skew[lease.by] > Skew[j] THEN Skew[lease.by] - Skew[j] ELSE 0
Barred(j) == vacant.at + Ttl + Behind(j)

SleepsAreShort ==
    \A i \in Instance : phase[i] = "sleep" => time <= since[i] + Tick

\* A lease ends at most its two ticks from now, by the clock of its holder.
ExpiryIsNear ==
    lease.by \in Instance => lease.exp <= time + Skew[lease.by] + Ttl

\* While the lease is vacant, nobody has claimed it since its holder died.
VacancyEnds ==
    vacant.heirs # {} =>
        /\ lease.by \in Instance
        /\ vacant.at <= time
        /\ lease.exp <= vacant.at + Skew[lease.by] + Ttl

\* A survivor that was refused read its clock before the lease expired; it
\* asks again after one sleep, and that time it is granted.
HeirsAskInTime ==
    \A j \in vacant.heirs :
        /\ phase[j] # "off"
        /\ phase[j] = "sleep" => since[j] <= Barred(j) + TickWork
        /\ phase[j] = "claim" => since[j] <= Barred(j) + TickWork + Tick
        /\ phase[j] \in Leading => since[j] <= vacant.at

FailoverInv ==
    /\ LeaseTypeOK /\ TicksAreShort /\ ClaimReadsClock
    /\ SleepsAreShort /\ ExpiryIsNear /\ VacancyEnds /\ HeirsAskInTime

LEMMA InitFailover == LeaseInit => FailoverInv
  BY InitTypes, InitTimes, TimingIsSane
     DEF LeaseInit, FailoverInv, SleepsAreShort, ExpiryIsNear, VacancyEnds,
         HeirsAskInTime

LEMMA NextSleeps ==
  LeaseTypeOK /\ SleepsAreShort /\ [LeaseNext]_leaseVars => SleepsAreShort'
  <1> SUFFICES ASSUME LeaseTypeOK /\ SleepsAreShort, [LeaseNext]_leaseVars PROVE SleepsAreShort'
    OBVIOUS
  <1> USE TimingIsSane DEF LeaseTypeOK, SleepsAreShort, Leading, Enter, Sleep, ForgetTick
  <1>1. CASE Pass
    BY <1>1 DEF Pass, Alive
  <1>2. ASSUME NEW i \in Instance, Start(i) PROVE SleepsAreShort'
    BY <1>2 DEF Start
  <1>3. ASSUME NEW i \in Instance, Wake(i) PROVE SleepsAreShort'
    BY <1>3 DEF Wake
  <1>4. ASSUME NEW i \in Instance, Claim(i) PROVE SleepsAreShort'
    BY <1>4 DEF Claim
  <1>5. ASSUME NEW i \in Instance, Skip(i) PROVE SleepsAreShort'
    BY <1>5 DEF Skip
  <1>6. ASSUME NEW i \in Instance, Check(i) PROVE SleepsAreShort'
    BY <1>6 DEF Check
  <1>7. ASSUME NEW i \in Instance, Fire(i) PROVE SleepsAreShort'
    BY <1>7 DEF Fire
  <1>8. ASSUME NEW i \in Instance, Commit(i) PROVE SleepsAreShort'
    BY <1>8 DEF Commit, Handled
  <1>9. ASSUME NEW i \in Instance, CommitFails(i) PROVE SleepsAreShort'
    BY <1>9 DEF CommitFails, Handled
  <1>10. ASSUME NEW i \in Instance, NEW c \in Connector, Manual(i, c)
         PROVE SleepsAreShort'
    BY <1>10 DEF Manual
  <1>11. ASSUME NEW i \in Instance, InstanceDies(i) PROVE SleepsAreShort'
    BY <1>11 DEF InstanceDies
  <1>12. CASE UNCHANGED leaseVars
    BY <1>12 DEF leaseVars
  <1> QED
    BY <1>1, <1>2, <1>3, <1>4, <1>5, <1>6, <1>7, <1>8, <1>9, <1>10, <1>11,
       <1>12 DEF LeaseNext

LEMMA NextExpiry ==
  LeaseTypeOK /\ TicksAreShort /\ ClaimReadsClock /\ ExpiryIsNear /\ [LeaseNext]_leaseVars => ExpiryIsNear'
  <1> SUFFICES ASSUME LeaseTypeOK /\ TicksAreShort /\ ClaimReadsClock /\ ExpiryIsNear, [LeaseNext]_leaseVars PROVE ExpiryIsNear'
    OBVIOUS
  <1> USE TimingIsSane DEF LeaseTypeOK, ExpiryIsNear, Enter, Sleep, ForgetTick, Ttl
  <1>1. CASE Pass
    BY <1>1 DEF Pass
  <1>2. ASSUME NEW i \in Instance, Start(i) PROVE ExpiryIsNear'
    BY <1>2 DEF Start
  <1>3. ASSUME NEW i \in Instance, Wake(i) PROVE ExpiryIsNear'
    BY <1>3 DEF Wake
  <1>4. ASSUME NEW i \in Instance, Claim(i) PROVE ExpiryIsNear'
    BY <1>4 DEF Claim, TicksAreShort, ClaimReadsClock
  <1>5. ASSUME NEW i \in Instance, Skip(i) PROVE ExpiryIsNear'
    BY <1>5 DEF Skip
  <1>6. ASSUME NEW i \in Instance, Check(i) PROVE ExpiryIsNear'
    BY <1>6 DEF Check
  <1>7. ASSUME NEW i \in Instance, Fire(i) PROVE ExpiryIsNear'
    BY <1>7 DEF Fire
  <1>8. ASSUME NEW i \in Instance, Commit(i) PROVE ExpiryIsNear'
    BY <1>8 DEF Commit, Handled
  <1>9. ASSUME NEW i \in Instance, CommitFails(i) PROVE ExpiryIsNear'
    BY <1>9 DEF CommitFails, Handled
  <1>10. ASSUME NEW i \in Instance, NEW c \in Connector, Manual(i, c)
         PROVE ExpiryIsNear'
    BY <1>10 DEF Manual
  <1>11. ASSUME NEW i \in Instance, InstanceDies(i) PROVE ExpiryIsNear'
    BY <1>11 DEF InstanceDies
  <1>12. CASE UNCHANGED leaseVars
    BY <1>12 DEF leaseVars
  <1> QED
    BY <1>1, <1>2, <1>3, <1>4, <1>5, <1>6, <1>7, <1>8, <1>9, <1>10, <1>11,
       <1>12 DEF LeaseNext

LEMMA NextVacancy ==
  LeaseTypeOK /\ ExpiryIsNear /\ VacancyEnds /\ [LeaseNext]_leaseVars => VacancyEnds'
  <1> SUFFICES ASSUME LeaseTypeOK /\ ExpiryIsNear /\ VacancyEnds, [LeaseNext]_leaseVars PROVE VacancyEnds'
    OBVIOUS
  <1> USE TimingIsSane DEF LeaseTypeOK, VacancyEnds, Enter, Sleep, ForgetTick, Ttl
  <1>1. CASE Pass
    BY <1>1 DEF Pass
  <1>2. ASSUME NEW i \in Instance, Start(i) PROVE VacancyEnds'
    BY <1>2 DEF Start
  <1>3. ASSUME NEW i \in Instance, Wake(i) PROVE VacancyEnds'
    BY <1>3 DEF Wake
  <1>4. ASSUME NEW i \in Instance, Claim(i) PROVE VacancyEnds'
    BY <1>4 DEF Claim
  <1>5. ASSUME NEW i \in Instance, Skip(i) PROVE VacancyEnds'
    BY <1>5 DEF Skip
  <1>6. ASSUME NEW i \in Instance, Check(i) PROVE VacancyEnds'
    BY <1>6 DEF Check
  <1>7. ASSUME NEW i \in Instance, Fire(i) PROVE VacancyEnds'
    BY <1>7 DEF Fire
  <1>8. ASSUME NEW i \in Instance, Commit(i) PROVE VacancyEnds'
    BY <1>8 DEF Commit, Handled
  <1>9. ASSUME NEW i \in Instance, CommitFails(i) PROVE VacancyEnds'
    BY <1>9 DEF CommitFails, Handled
  <1>10. ASSUME NEW i \in Instance, NEW c \in Connector, Manual(i, c)
         PROVE VacancyEnds'
    BY <1>10 DEF Manual
  <1>11. ASSUME NEW i \in Instance, InstanceDies(i) PROVE VacancyEnds'
    BY <1>11 DEF InstanceDies, ExpiryIsNear
  <1>12. CASE UNCHANGED leaseVars
    BY <1>12 DEF leaseVars
  <1> QED
    BY <1>1, <1>2, <1>3, <1>4, <1>5, <1>6, <1>7, <1>8, <1>9, <1>10, <1>11,
       <1>12 DEF LeaseNext

LEMMA NextHeirs ==
  FailoverInv /\ [LeaseNext]_leaseVars => HeirsAskInTime'
  <1> SUFFICES ASSUME FailoverInv, [LeaseNext]_leaseVars PROVE HeirsAskInTime'
    OBVIOUS
  <1> USE TimingIsSane DEF FailoverInv, LeaseTypeOK, HeirsAskInTime, Leading, Enter,
          Sleep, ForgetTick, Barred, Behind, Ttl
  <1>1. CASE Pass
    BY <1>1 DEF Pass
  <1>2. ASSUME NEW i \in Instance, Start(i) PROVE HeirsAskInTime'
    BY <1>2 DEF Start
  <1>3. ASSUME NEW i \in Instance, Wake(i) PROVE HeirsAskInTime'
    <2>1. time = since[i] + Tick /\ phase[i] = "sleep"
      BY <1>3 DEF Wake
    <2>2. i \in vacant.heirs => time <= Barred(i) + TickWork + Tick
      <3> SUFFICES ASSUME i \in vacant.heirs
                   PROVE  time <= Barred(i) + TickWork + Tick
        OBVIOUS
      <3>1. since[i] <= Barred(i) + TickWork
        BY <2>1
      <3>2. lease.by \in Instance
        BY DEF VacancyEnds
      <3> QED BY <2>1, <3>1, <3>2
    <2>3. \A j \in Instance : Barred(j)' = Barred(j)
      BY <1>3 DEF Wake
    <2>4. /\ phase' = [phase EXCEPT ![i] = "claim"]
          /\ since' = [since EXCEPT ![i] = time]
          /\ vacant' = vacant
      BY <1>3 DEF Wake
    <2> QED BY <2>2, <2>3, <2>4
  <1>4. ASSUME NEW i \in Instance, Claim(i) PROVE HeirsAskInTime'
    BY <1>4 DEF Claim
  <1>5. ASSUME NEW i \in Instance, Skip(i) PROVE HeirsAskInTime'
    <2>1. ASSUME NEW j \in vacant.heirs, j = i
          PROVE  time <= Barred(j) + TickWork
      <3>1. phase[j] = "claim" /\ read[j] <= lease.exp
        BY <1>5, <2>1 DEF Skip, Granted
      <3>2. lease.by \in Instance /\ lease.exp <= vacant.at + Skew[lease.by] + Ttl
        BY <2>1 DEF VacancyEnds
      <3>3. read[j] = since[j] + Skew[j] /\ time <= since[j] + TickWork
        BY <2>1, <3>1 DEF ClaimReadsClock, TicksAreShort, Acting
      <3> QED BY <3>1, <3>2, <3>3
    <2> QED BY <1>5, <2>1 DEF Skip
  <1>6. ASSUME NEW i \in Instance, Check(i) PROVE HeirsAskInTime'
    BY <1>6 DEF Check, VacancyEnds, TicksAreShort, Acting
  <1>7. ASSUME NEW i \in Instance, Fire(i) PROVE HeirsAskInTime'
    BY <1>7 DEF Fire
  <1>8. ASSUME NEW i \in Instance, Commit(i) PROVE HeirsAskInTime'
    BY <1>8 DEF Commit, Handled, VacancyEnds, TicksAreShort, Acting
  <1>9. ASSUME NEW i \in Instance, CommitFails(i) PROVE HeirsAskInTime'
    BY <1>9 DEF CommitFails, Handled, VacancyEnds, TicksAreShort, Acting
  <1>10. ASSUME NEW i \in Instance, NEW c \in Connector, Manual(i, c)
         PROVE HeirsAskInTime'
    BY <1>10 DEF Manual
  <1>11. ASSUME NEW i \in Instance, InstanceDies(i) PROVE HeirsAskInTime'
    BY <1>11 DEF InstanceDies, Alive, TicksAreShort
  <1>12. CASE UNCHANGED leaseVars
    BY <1>12 DEF leaseVars
  <1> QED
    BY <1>1, <1>2, <1>3, <1>4, <1>5, <1>6, <1>7, <1>8, <1>9, <1>10, <1>11,
       <1>12 DEF LeaseNext

LEMMA FailoverInvHolds == LeaseSpec => []FailoverInv
  <1>1. FailoverInv /\ [LeaseNext]_leaseVars => FailoverInv'
    BY NextTypes, NextTimes, NextSleeps, NextExpiry, NextVacancy, NextHeirs
       DEF FailoverInv
  <1> QED
    BY InitFailover, <1>1, PTL DEF LeaseSpec

\* A leader that dies is replaced: whoever lived when it died is never kept
\* out longer than three ticks, two ticks' work and its clock's delay, however
\* many instances there are and whatever their clocks.
THEOREM DeadLeadersAreReplaced == LeaseSpec => []FailoverIsBounded
  <1>1. FailoverInv => FailoverIsBounded
    <2> SUFFICES ASSUME FailoverInv, NEW j \in Instance, Leaderless(j)
                 PROVE  time - vacant.at <= Tick + 2 * TickWork + Ttl + Behind(j)
      BY TimingIsSane DEF FailoverIsBounded, Behind, Ttl
    <2> USE TimingIsSane DEF FailoverInv, LeaseTypeOK, Leading, Acting
    <2>1. phase[j] \in Leading \cup {"sleep", "claim"} /\ j \in vacant.heirs
      BY DEF Leaderless, Alive
    <2>2. vacant.at <= time /\ lease.by \in Instance
      BY <2>1 DEF VacancyEnds
    <2>3. Behind(j) \in Nat /\ Barred(j) = vacant.at + Ttl + Behind(j) /\ Ttl \in Nat
      BY <2>2 DEF Behind, Barred, Ttl
    <2>4. CASE phase[j] = "sleep"
      <3>1. since[j] <= Barred(j) + TickWork /\ time <= since[j] + Tick
        BY <2>1, <2>4 DEF HeirsAskInTime, SleepsAreShort
      <3> QED BY <3>1, <2>2, <2>3
    <2>5. CASE phase[j] = "claim"
      <3>1. since[j] <= Barred(j) + TickWork + Tick /\ time <= since[j] + TickWork
        BY <2>1, <2>5 DEF HeirsAskInTime, TicksAreShort
      <3> QED BY <3>1, <2>2, <2>3
    <2>6. CASE phase[j] \in Leading
      <3>1. since[j] <= vacant.at /\ time <= since[j] + TickWork
        BY <2>1, <2>6 DEF HeirsAskInTime, TicksAreShort
      <3> QED BY <3>1, <2>2, <2>3
    <2> QED BY <2>1, <2>4, <2>5, <2>6
  <1> QED
    BY <1>1, FailoverInvHolds, PTL

=============================================================================
