SPECIFICATION Spec
CONSTANTS
    researcher = researcher
    writer = writer
    Top = Top
    Workers = {researcher, writer}
    Prefix <- Names
    Ids = {tool_0}
    Tools = {"Task", "Read"}
    Task = "Task"
    NoTool = "none"
    MaxIndex = 1
    MaxMessages = 2
INVARIANTS
    ResultNamesItsCall
    TextWithheldForTools
CHECK_DEADLOCK FALSE
