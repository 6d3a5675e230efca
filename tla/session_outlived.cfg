CONSTANTS
    Channels = {c1}
    MaxMessages = 1
SPECIFICATION Spec
INVARIANTS
    SessionOutlivesChannels
