SPECIFICATION Spec
CONSTANTS
    ChannelCount = 2
    LabelSize = 1
    Functions = {1, 2, 3}
    DeviceIds = {7}
    FieldBytes = {1, 2}
    MaxChanges = 4
INVARIANTS
    SaveLoads
    NothingInvented
