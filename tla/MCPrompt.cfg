CONSTANTS
    plain = plain
    always = always
    secret = secret
    read = read
    search = search
    post = post
    Skill = {plain, always, secret}
    Allowed = {plain, always}
    Ready = {plain, always}
    Always = {always}
    ToolsOf <- MCToolsOf
    Basic = {read}
    Optional = {search, post}
    Budget = 13
    Large = 4
    Marker = 1
    SystemSize = {1, 2}
    Dispatched = {main}
    Direct = {direct}
    MaxMessages = 9
SPECIFICATION Spec
INVARIANTS
    CompactionIsExact
    OfferedToolsAreOwn
PROPERTIES
    CompactedStaysCompacted
