\* Two changes of two messages, any number of starts, stops, resets and failures.
SPECIFICATION Spec
CONSTANTS
    hello = hello
    reply = reply
    NoUnit = NoUnit
    Units = {hello, reply}
    DialogOf <- MCDialogOf
    MaxSchema = 2
    ResetBesideServer = FALSE
    MaxChanges = 2
CONSTRAINT MCBound
SYMMETRY MCSymmetry
INVARIANTS OnRecordIsReadable PassedIsReadable ReadsOneVersion ReadyIsComplete
PROPERTIES RepairedIsCurrent
CHECK_DEADLOCK FALSE
