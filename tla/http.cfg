SPECIFICATION MCSpec
CONSTANTS
    bad = bad
    Request = {r1, r2, bad}
    Port <- MCPort
    NoPort = NoPort
    None = None
    Listeners = {l1}
    Connections = {c1, c2}
    Handlers = {"resources", "websocket"}
    Prefix <- MCPrefix
    Resources <- MCResources
    Server = Server
    Nobody = Nobody
    Mimes = {plain, url}
    plain = plain
    MaxDepth = 3
    MaxOutputs = 4
    MaxText = 3
    Names = {"debug", "udp/debug"}
    Path <- MCPath
    EndsWith <- MCEndsWith
INVARIANTS
    Consistent
    ServerConsistent
    DebugConsistent
PROPERTIES
    ImplementsRequests
    LongestPrefixFirst
    BothStop
