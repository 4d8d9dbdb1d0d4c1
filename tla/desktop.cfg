\* Two accounts, a Linux and a Windows build, one rebuild of the cloud VFS.
SPECIFICATION Spec
CONSTANTS
    Platforms = {{"fuse"}, {"winfsp", "cloudfiles"}}
    Writers = {"winfsp", "cloudfiles"}
    MaxVfs = 2
    Account = {a, b}
    Nobody = Nobody
INVARIANTS
    NoDangling
    WritersKnown
    AccountsApart
PROPERTY StopsEnd
