\* Two sandboxes, one address, two faults; namespaces of deleted sandboxes go.
CONSTANTS
    None = None
    Sandboxes = {s1, s2}
    Addrs = {a1}
    MaxFaults = 2
SPECIFICATION GoneSpec
INVARIANTS TypeOK AddComplete NoSharedAddress DelComplete
PROPERTIES DelReleases IsAttachment
