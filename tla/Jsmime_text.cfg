\* A message with a base64 text part that has a line end in the middle of a character,
\* in one packet, as parseSync delivers it.
SPECIFICATION SpecJsmime
CONSTANTS
    None = None
    Undefined = Undefined
    SoftBreak = "="
    Field <- MCField
    Decoded <- MCDecoded
    Signed <- MCSigned
    Extension <- MCExtension
    Sender = "alice"
    Messages <- SplitCharacter
    Beside <- MCBeside
    NewLines <- MCNewLines
    AllOptions <- MCOptions
    PacketSizes = {}
    Octets <- MCOctets
    Cleaned <- MCCleaned
    DateFields <- MCDateFields
    KnownZones <- MCKnownZones
    Width <- MCWidth
    AllMargins <- MCAllMargins
    Fields <- MCFields
    MaxFields = 2
    Values <- MCValues
    MaxPieces = 3
INVARIANTS
    TextIsDecodedWhole
CHECK_DEADLOCK FALSE
