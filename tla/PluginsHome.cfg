SPECIFICATION PluginsSpec
CONSTANTS
    p1 = p1
    p2 = p2
    bundled = bundled
    retired = retired
    external = external
    old = old
    new = new
    Sessions = {p1, p2}
    Bundled = {bundled}
    Retired = {retired}
    External = {external}
    Versions = {old, new}
    Offered <- MCOffered
    Binary = new
    None = None
    MaxAsked = 3
    MaxAborts = 1
SYMMETRY MCSymmetry
INVARIANTS ListHeals OnlyFragmentsFail
