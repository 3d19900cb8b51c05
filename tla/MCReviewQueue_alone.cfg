SPECIFICATION SequentialSpec
CONSTANTS
    i1 = i1
    i2 = i2
    draft = draft
    w1 = w1
    w2 = w2
    withheld = withheld
    Item = {i1, i2}
    Call = {c1, c2, c3}
    Text = {draft, w1, w2, withheld}
    Draft <- SameDraft
    Notice = {withheld}
    Origin <- BothOrigins
    NoCall = NoCall
    NoText = NoText
PROPERTIES ImplementsRecord
\* every item may be reviewed and every call over
CHECK_DEADLOCK FALSE
