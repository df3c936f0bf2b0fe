SPECIFICATION SettingsSpec
CONSTANTS
    Key = {a}
    Unset = unset
    Value = {unset, v}
    Edit = {e1}
    Process = {api}
    API = api
    MaxMissed = 1
    NoEdit = NoEdit
INVARIANT SavedIsAppliedLocally
CHECK_DEADLOCK FALSE
