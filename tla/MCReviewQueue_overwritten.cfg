SPECIFICATION Spec
CONSTANTS
    i1 = i1
    i2 = i2
    draft = draft
    w1 = w1
    w2 = w2
    withheld = withheld
    Item = {i1}
    Call = {c1, c2}
    Text = {draft, w1, w2, withheld}
    Draft <- SameDraft
    Notice = {withheld}
    Origin <- OneEscalation
    NoCall = NoCall
    NoText = NoText
PROPERTIES DecisionsNotOverwritten
\* every item may be reviewed and every call over
CHECK_DEADLOCK FALSE
