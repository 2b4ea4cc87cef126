SPECIFICATION Spec
CONSTANTS
    r1 = r1
    r2 = r2
    bad = bad
    Request = {r1, r2, bad}
    Port <- MCPort
    NoPort = NoPort
    None = None
INVARIANT
    ConnectsToUrl
