SPECIFICATION ThemesSpec
CONSTANTS
    b1 = b1  b2 = b2
    light = light  dark = dark
    l = l  d = d
    Theme = {b1, u1, u2}
    Builtin = {b1}
    Mode = {light}
    ModeOf <- MCModeOf
    Field = {f}
    Token = {l, d}
    Palette <- MCPalette
    Absent = Absent
    Admin = {a1, a2}
    NoTheme = NoTheme
    NoMode = NoMode
INVARIANT OneDefault
CHECK_DEADLOCK FALSE
