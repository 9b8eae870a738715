----------------------------- MODULE MCDocuments ------------------------------
(*****************************************************************************)
(* The documents of a vault: their saves (DocumentSaves), the tree they form *)
(* (VaultTree), loading them (VaultLoading), the blocks their bodies are     *)
(* kept in (NoteBodies) and how a body is cut into blocks (BodySplitting). A *)
(* behaviour is about one of them, its part.                                 *)
(*****************************************************************************)
EXTENDS DocumentSaves, TLC

CONSTANTS Parts, n1, n2, laptop, d1, d2, x1, x2, None

VARIABLES part,
          docs, rows, writes, queue, names, jobs, store, copies, work,
          db, page, server, head, floor, bad, welcome, pressed, noticed,
          loadingSpent,
          piece, bodiesServer, backup, epoch, browser, app, edits, lost,
          restores, purges,
          left, right, tail

Alone == laptop :> laptop

Typed == INSTANCE DocumentSaves WITH MaxStructural <- 0
Moved == INSTANCE DocumentSaves WITH MaxEdits <- 1
Tree == INSTANCE VaultTree WITH
    Devices <- {d1}, Objects <- {1, 2, 3}, Folders <- {1, 2}, Names <- {7},
    Habits <- {"create", "move", "reorder", "trash", "restore", "purge", "copy", "lock"},
    MaxJobs <- 1, MaxWork <- 4
Loading == INSTANCE VaultLoading WITH
    Pages <- {laptop}, DeviceOf <- Alone, Objects <- {1, 2}, Folders <- {},
    MaxVersions <- 2, MaxFaults <- 1, MaxFailures <- 1, Ignores <- TRUE,
    OldPurges <- {1}, spent <- loadingSpent
Bodies == INSTANCE NoteBodies WITH
    Devices <- {d1, d2}, Apps <- {}, Pieces <- {x1, x2}, MaxLength <- 2,
    MaxEdits <- 2, MaxLost <- 1, MaxRestores <- 0, MaxPurges <- 1,
    server <- bodiesServer
Restored == INSTANCE NoteBodies WITH
    Devices <- {d1, d2}, Apps <- {}, Pieces <- {x1, x2}, MaxLength <- 2,
    MaxEdits <- 1, MaxLost <- 1, MaxRestores <- 1, MaxPurges <- 1,
    server <- bodiesServer
Splitting == INSTANCE BodySplitting WITH
    Bytes <- {0, 1, 2}, Window <- 2, Least <- 2, Most <- 4, Remainders <- 4,
    Base <- 3, Width <- 16, Heads <- 2, Tails <- 5

ASSUME /\ Tree!TreeConstants
       /\ Loading!VaultLoadingAssumption
       /\ Bodies!BodiesAssumption
       /\ Restored!BodiesAssumption
       /\ Splitting!SplittingAssumption

treeVars == <<docs, rows, writes, queue, names, jobs, store, copies, work>>
loadingVars == <<db, page, server, head, floor, bad, welcome, pressed, noticed,
                 loadingSpent>>
bodiesVars == <<piece, bodiesServer, backup, epoch, browser, app, edits, lost,
                restores, purges>>
splittingVars == <<left, right, tail>>
everything == <<part, vars, treeVars, loadingVars, bodiesVars, splittingVars>>

(* Only component p moves; the others stay where they began.               *)
Only(p) ==
    /\ part = p /\ UNCHANGED part
    /\ IF p \in {"typed", "moved"} THEN TRUE ELSE UNCHANGED vars
    /\ IF p = "tree" THEN TRUE ELSE UNCHANGED treeVars
    /\ IF p = "loading" THEN TRUE ELSE UNCHANGED loadingVars
    /\ IF p \in {"bodies", "restored"} THEN TRUE ELSE UNCHANGED bodiesVars
    /\ IF p = "splitting" THEN TRUE ELSE UNCHANGED splittingVars

RootInit ==
    /\ part \in Parts /\ Init /\ Tree!Init /\ Loading!Init /\ Bodies!Init
    /\ Splitting!Init
    /\ part # "loading" => server = [o \in {1, 2} |-> Loading!NoObject]
    /\ part # "splitting" => left.text = <<>> /\ right = left
    /\ part \notin {"typed", "moved"} => active = n1

TypedStep == Only("typed") /\ Typed!Next
MovedStep == Only("moved") /\ Moved!Next
TreeStep == Only("tree") /\ Tree!Next
LoadingStep == Only("loading") /\ Loading!Next
BodiesStep == Only("bodies") /\ Bodies!Next
RestoredStep == Only("restored") /\ Restored!Next
SplittingStep == Only("splitting") /\ Splitting!Next

RootNext == TypedStep \/ MovedStep \/ TreeStep \/ LoadingStep
            \/ BodiesStep \/ RestoredStep \/ SplittingStep

RootSpec == RootInit /\ [][RootNext]_everything

(* VaultTree: the tree stays usable, whatever operations overlap.            *)
TreeSafe == Tree!TreeSafe

(*****************************************************************************)
(* VaultLoading, NoteBodies, BodySplitting: a load hides, leaves out and     *)
(* adds nothing it must not (useVaultLoad.ts); every body held anywhere can  *)
(* be read, what a browser does not send is on the server, and blocks keep   *)
(* to their limits wherever a body is cut. (src/storage/noteBodies.ts)       *)
(*****************************************************************************)
ContentSafe == Loading!LoadingSafe /\ Bodies!BodiesSafe /\ Splitting!BlocksSafe

(* The devices, the pieces and the notes are each interchangeable.           *)
Alike == Permutations({d1, d2}) \cup Permutations({x1, x2}) \cup Permutations({n1, n2})
===============================================================================
