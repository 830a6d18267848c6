SPECIFICATION SpecJsmime
CONSTANTS
    None = None
    Undefined = Undefined
    SoftBreak = "="
    Field <- MCField
    Decoded <- MCDecoded
    Signed <- MCSigned
    Extension <- MCExtension
    Sender = "alice"
    Messages <- MCMessages
    Beside <- MCBeside
    NewLines <- MCNewLines
    AllOptions <- MCOptions
    PacketSizes = {1, 2, 5}
    Octets <- MCOctets
    Cleaned <- MCCleaned
    DateFields <- MCDateFields
    KnownZones <- MCKnownZones
    Width <- MCWidth
    AllMargins <- MCAllMargins
    Fields <- MCFields
    MaxFields = 2
    Values <- MCValues
    MaxPieces = 3
INVARIANTS
    ReadsWhatWasWritten
    
    PathFollowsParser
    VerifiedIsShown
    
    HeadersComeBack
    LinesFit
    PiecesComeTogether
CHECK_DEADLOCK FALSE
