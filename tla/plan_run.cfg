CONSTANTS
    N = 3
    Name = {"unet", "nnunet", "unetr"}
    Alike <- Alikes
    Finds <- Alikes
    Shelf <- OneBook
    Key = {"paper", "doc"}
    Free = Free
    Exclusive = Exclusive
    None = None
    Shape <- Shapes
    Limit = 2
    Domain = {"paper"}
SPECIFICATION Spec
INVARIANTS
    ExecInv
    RepairSound
    AllAnswered
    NoOverlap
    GuardSound
