SPECIFICATION ListSpec
CONSTANT Move = {m1, m2, m3}
PROPERTY IsBag
