SPECIFICATION FairSpec
CONSTANTS
    Listeners = {l1}
    Connections = {c1, c2}
    Handlers = {"resources", "websocket"}
    Prefix <- MCPrefix
    Resources <- MCResources
    Server = Server
    Nobody = Nobody
INVARIANTS
    AcceptPendingAtStop
