CONSTANTS
    chat = chat
    system = system
    command = command
    stop = stop
    hook = hook
    direct = direct
    user = user
    other = other
    hooks = hooks
    NoRunner = NoRunner
    NoKey = NoKey
    Key = {user, other, hooks}
    KeyOf <- MCKeyOf
    KindOf <- MCKindOf
    Msg = {system, stop, hook}
    Direct = {}
    Quiet = {}
    InboundCap = 1
    OutboundCap = 1
SPECIFICATION FairSpec
PROPERTIES
    EveryMessageSettled
    ShutdownCompletes
