\* One message on one connection, read in pieces of every length: the whole
\* in one read, a byte at a time, and every way between.  The maxima are those
\* of the good messages, so that one token more in a line or in the longest
\* message is too much.  An int goes up to 15: the numbers 23 and more that a
\* token 3 makes of a Content-Length do not fit.
SPECIFICATION Spec
CONSTANTS
    Streams <- MCStreams
    SizeLimit = 39
    StartLineMax = 7
    HeaderNameMax = 2
    HeaderValueMax = 3
    ChunkLineMax = 2
    TrailerLineMax = 2
    ChunkSizeMax = 3
    IntValues = 32
    SizeValues = 128
INVARIANTS
    FragmentsDontMatter
    TakesExactlyTheMessage
    ContinueAnsweredOnce
CHECK_DEADLOCK FALSE
