\* Two sub loops, two comments, one edit of the file.
SPECIFICATION DispatcherSpec
CONSTANTS
    Threads = {t1, t2}
    Nobody = Nobody
    CommentLike = {"", "#eve"}
    Written <- MCWritten
    Edits <- MCEdits
    Comments <- MCComments
    Anonymous = "anon"
    Intercepted = "[AI]"
    TagLike = {"[AI]"}
    MaxPosts = 2
    MaxEdits = 1
SYMMETRY Symmetry
INVARIANTS
    BannedStaysBlocked
