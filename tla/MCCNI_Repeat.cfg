\* One sandbox whose DEL fails once and is repeated.
CONSTANTS
    None = None
    Sandboxes = {s1}
    Addrs = {a1}
    MaxFaults = 1
SPECIFICATION FairSpec
PROPERTIES DelReleases

