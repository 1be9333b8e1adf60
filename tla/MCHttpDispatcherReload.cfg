\* One thread, one author with two addresses, nobody edits the file.
SPECIFICATION DispatcherSpec
CONSTANTS
    Threads = {t1}
    Nobody = Nobody
    CommentLike = {""}
    TagLike = {"[AI]"}
    Written <- MCWritten
    Edits <- NoEdits
    Comments <- Wanderer
    Anonymous = "anon"
    Intercepted = "[AI]"
    MaxPosts = 1
    MaxEdits = 0
INVARIANTS
    BansAreKept
