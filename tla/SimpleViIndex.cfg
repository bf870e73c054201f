\* A new line, and up, down and up again, bring the index to -1.
CONSTANTS
    BUFSIZ = 4
    MAXLINES = 3
    rows = 3
    cols = 2
    CommandLines = {}
    MaxTop = 2
SPECIFICATION Spec
INVARIANT IndexInText
