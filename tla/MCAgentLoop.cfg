CONSTANTS
    chat = chat
    system = system
    command = command
    stop = stop
    hook = hook
    direct = direct
    user = user
    other = other
    hooks = hooks
    NoRunner = NoRunner
    NoKey = NoKey
    Key = {user, other, hooks}
    KeyOf <- MCKeyOf
    KindOf <- MCKindOf
    Msg = {chat, command, stop, hook}
    Direct = {direct}
    Quiet = {hook}
    InboundCap = 1
    OutboundCap = 1
SPECIFICATION Spec
INVARIANTS
    TypeOK
    LiveTasksStoppable
    ToolContextIsOwn
PROPERTIES
    StopHitsItsSessionOnly
    ImplementsService
