\* The editor: four characters in a window of two rows (and the status line) by
\* two columns: a line wraps after two characters, and fills the window with
\* three.  A limit is met by the text (four) and by the lines (three).
\* who: a buffer of two records for files of up to five, so that it is filled
\* three times, and not to the end.
\* utmp: two terminals and two users, and up to two lines typed.
\* more: screens of two lines, and files that are empty, shorter than one, and
\* as long as two and more.
\* du: paths down to the limit, and trees of up to seven nodes.
\* pwd: all trees of four directories on two devices, with up to one link.
\* non_block_demo: a screen of four dots.
\* cp: up to four bytes in pieces of two, and disks with room for none to all.
\* ls: two directories with up to two names, the same in both, and two changes.
CONSTANTS
    BUFSIZ = 4
    MAXLINES = 3
    rows = 3
    cols = 2
    MaxTop = 1
    MaxCommand = 5
    NUM_RECORDS = 2
    MaxRecords = 5
    UserNames = {"ann", "bob"}
    NumTerminals = 2
    MaxTyped = 2
    FileLengths = {0, 1, 4, 5}
    NumFiles = 2
    MaxReplies = 3
    MAXDEPTH = 4
    FileSizes = {1, 2}
    MaxNodes = 7
    MaxKeys = 3
    BUFFER_SIZE = 2
    MaxBytes = 4
    MaxSpace = 4
    Names = {1, 2}
    MaxChanges = 2
SPECIFICATION Spec
INVARIANTS
    TypeOK
    AllCharactersCounted
    CommandsAreObeyed
    ListsAreComplete
    CopyIsTrue
    AsksForEachPage
    UsageNeverOver
    PathLeadsBack
    
PROPERTIES
    EditsKeepTable
    CursorFollows
CHECK_DEADLOCK FALSE
