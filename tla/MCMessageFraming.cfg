SPECIFICATION LiveSpec
CONSTANTS
    Bodies <- MCBodies
    MaxInt = 3
    MaxMessages = 2
PROPERTIES
    IsMessagePipe
    WholeMessagesArrive
    EndsWithEditor
