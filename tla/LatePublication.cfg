SPECIFICATION SitePartEditorsSpec
CONSTANTS
    ShellSets = {h1, h2}
    FirstSet = h1
    NoShellSet = NoShellSet
    Shells = {g1, g2}
    DefaultShell = g1
    MaxShellVersion = 3
    MaxShellEdits = 1
INVARIANT
    CleanCanvasIsStored
CHECK_DEADLOCK FALSE
