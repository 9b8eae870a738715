------------------------------ MODULE MCClients -------------------------------
(*****************************************************************************)
(* The editor (EditorSession), its tables (TableEditing) and lists           *)
(* (ListEditing), and programs beside it: the application client of an agent *)
(* (ApplicationClient), the worker that holds the keys (CryptoWorker),       *)
(* Markdown archives (MarkdownTransfer) and the batches an import saves      *)
(* (ImportBatches). A behaviour is about one of them, its part.              *)
(*****************************************************************************)
EXTENDS ApplicationClient, TLC

CONSTANTS Parts, x1, None, Red, Blue

VARIABLES part,
          buffers, vault, wrap, handling, answers, outstanding, settled, page,
          script, registered, dead,
          phase, documents, roots, readable, archive, plan,
          disk, shown, reserved, batch, result, generation, leaving, batches,
          created, failed,
          listed, held, locked, active, previewing, remount, source, reading,
          props, presented, engine, places, files, origin, erased, dropped,
          overwritten, typed, switches,
          blocks, caret, focused, popup, entered, removed, outdated, torn,
          lines, point

(* Titles that clash after cleaning, by case and with the names an export reserves. *)
Safe == [t \in {"a", "A", "a.md", "_attachments"} |->
           IF t = "a.md" THEN <<"a", ".md">> ELSE <<t>>]
Lower == [t \in {"A"} |-> "a"]

(* Archives of three entries at the top or in a directory, in any order. *)
Up == <<"..">>
Item(path, kind, body) == [path |-> path, kind |-> kind, body |-> body]
Folder == Item(<<<<"d">>>>, "directory", None)
Places == {<<>>, <<<<"d">>>>}
References == {<<<<"a", ".png">>>>, <<Up, <<"a", ".png">>>>, <<<<"d">>, <<"a", ".png">>>>}
Pool == {Item(Append(p, <<"a", ".png">>), "image", Red) : p \in Places}
          \cup {Item(Append(p, <<"A", ".png">>), "image", Blue) : p \in Places}
          \cup {Item(Append(p, <<n, ".md">>), "note", {r}) : p \in Places, n \in {"a", "A"},
                                                         r \in References}
          \cup {Folder}
Archive(x, y, z) == [entries |-> <<x, y, z>>, named |-> {}]
Elsewhere == {Archive(x, y, z) : x, y, z \in Pool}

(* A folder, a note in it, and one beside it with the folder's title. *)
SmallPlan == << [title |-> "a", parent |-> 0],
                [title |-> "a", parent |-> 1],
                [title |-> "a", parent |-> 0] >>

Restoring == INSTANCE ApplicationClient WITH
    MaxLosses <- 0, MaxChanges <- 0, MaxRestores <- 1, MaxExpiries <- 0
Recoverer == INSTANCE ApplicationClient WITH
    MaxLosses <- 1, MaxChanges <- 1, Recovering <- TRUE
Worker == INSTANCE CryptoWorker WITH
    MaxCalls <- 6, MaxAtOnce <- 2, pending <- outstanding, running <- handling
Markdown == INSTANCE MarkdownTransfer WITH
    Ids <- {1, 2, 3}, Titles <- {"a", "A", "a.md", "_attachments"},
    SafeName <- Safe, LowerCase <- Lower, Attachments <- {x1},
    Foreign <- Elsewhere
Imports == INSTANCE ImportBatches WITH
    Plan <- SmallPlan, Titles <- {"a", "b"}, MaxBatches <- 2, MaxCreated <- 2,
    MaxFailed <- 2, epoch <- generation

(* What is typed, pasted and added; what the workspace does; a text that     *)
(* changes while one is composed.                                            *)
Editing == INSTANCE EditorSession WITH
    Notes <- {"a", "b", "c"}, First <- {"a", "b"}, Edits <- {1, 2}, Images <- {11},
    Files <- {21}, Theirs <- 31, MaxSwitches <- 1, Meanwhile <- FALSE, shown <- presented
Switching == INSTANCE EditorSession WITH
    Notes <- {"a", "b", "c"}, First <- {"a", "b"}, Edits <- {}, Images <- {11},
    Files <- {}, Theirs <- 31, MaxSwitches <- 3, Meanwhile <- FALSE, shown <- presented
Disturbed == INSTANCE EditorSession WITH
    Notes <- {"a", "b", "c"}, First <- {"a", "b"}, Edits <- {1}, Images <- {11},
    Files <- {21}, Theirs <- 31, MaxSwitches <- 1, Meanwhile <- TRUE, shown <- presented

(* Tokens 7 and 8 are a bar and a break of a line.                           *)
Ruled == {[cells |-> <<{1}, {}>>, bars |-> TRUE]}
Cell(header, align, text) == [header |-> header, align |-> align, text |-> text]
Wide == {<< <<Cell(TRUE, "left", {}), Cell(TRUE, None, {})>> >>}
Uneven == {<< <<Cell(TRUE, None, {})>>, <<Cell(FALSE, "left", {7}), Cell(FALSE, None, {})>> >>}

OneTable == INSTANCE TableEditing WITH
    Lines <- {}, Foreign <- Wide, Tokens <- {7, 8}, Breaks <- {8}, Bar <- 7, Escaped <- 9,
    Squares <- 1, Limit <- 2, Numbers <- {0, 3}, Aligned <- {"left"}, MaxTyped <- 1,
    MaxRows <- 1, doc <- blocks, cursor <- caret, typed <- entered
TwoTables == INSTANCE TableEditing WITH
    Lines <- Ruled, Foreign <- Wide, Tokens <- {1, 7}, Breaks <- {}, Bar <- 7, Escaped <- 9,
    Squares <- 1, Limit <- 1, Numbers <- {}, Aligned <- {}, MaxTyped <- 0,
    MaxRows <- 2, doc <- blocks, cursor <- caret, typed <- entered
Retyped == INSTANCE TableEditing WITH
    Lines <- {}, Foreign <- Wide, Tokens <- {1, 7}, Breaks <- {}, Bar <- 7, Escaped <- 9,
    Squares <- 1, Limit <- 1, Numbers <- {}, Aligned <- {}, MaxTyped <- 2,
    MaxRows <- 1, doc <- blocks, cursor <- caret, typed <- entered
Pasted == INSTANCE TableEditing WITH
    Lines <- {}, Foreign <- Uneven, Tokens <- {7}, Breaks <- {}, Bar <- 7, Escaped <- 9,
    Squares <- 1, Limit <- 1, Numbers <- {}, Aligned <- {"left"}, MaxTyped <- 0,
    MaxRows <- 2, doc <- blocks, cursor <- caret, typed <- entered

Texts == INSTANCE ListEditing WITH
    Tokens <- {1, 2}, Open <- 8, Done <- 9, MaxLines <- 3, MaxLevel <- 3, cursor <- point
Items == INSTANCE ListEditing WITH
    Tokens <- {}, Open <- 8, Done <- 9, MaxLines <- 4, MaxLevel <- 3, cursor <- point

ASSUME /\ Editing!EditorAssumption /\ Switching!EditorAssumption /\ Disturbed!EditorAssumption
       /\ OneTable!TableAssumption /\ TwoTables!TableAssumption
       /\ Retyped!TableAssumption /\ Pasted!TableAssumption
       /\ Texts!ListAssumption /\ Items!ListAssumption
       /\ Worker!WorkerAssumption
       /\ Markdown!TransferAssumption
       /\ Imports!ImportAssumption

workerVars == <<buffers, vault, wrap, handling, answers, outstanding, settled,
                page, script, registered, dead>>
markdownVars == <<phase, documents, roots, readable, archive, plan>>
importsVars == <<disk, shown, reserved, batch, result, generation, leaving,
                 batches, created, failed>>
editorVars == <<listed, held, locked, active, previewing, remount, source, reading,
                props, presented, engine, places, files, origin, erased, dropped,
                overwritten, typed, switches>>
tableVars == <<blocks, caret, focused, popup, entered, removed, outdated, torn>>
listVars == <<lines, point>>
everything == <<part, vars, workerVars, markdownVars, importsVars,
                editorVars, tableVars, listVars>>

Sessions == {"editing", "switching", "disturbed"}
Tables == {"one table", "two tables", "retyped", "pasted"}
Lists == {"texts", "items"}

(* Only component p moves; the others stay where they began.               *)
Only(p) ==
    /\ part = p /\ UNCHANGED part
    /\ IF p \in {"client", "restoring", "recovering"} THEN TRUE ELSE UNCHANGED vars
    /\ IF p = "worker" THEN TRUE ELSE UNCHANGED workerVars
    /\ IF p = "markdown" THEN TRUE ELSE UNCHANGED markdownVars
    /\ IF p = "imports" THEN TRUE ELSE UNCHANGED importsVars
    /\ IF p \in Sessions THEN TRUE ELSE UNCHANGED editorVars
    /\ IF p \in Tables THEN TRUE ELSE UNCHANGED tableVars
    /\ IF p \in Lists THEN TRUE ELSE UNCHANGED listVars

RootInit ==
    /\ part \in Parts
    /\ part # "markdown" => archive = Archive(Folder, Folder, Folder)
    /\ part # "worker" => page = "login"
    /\ active = "a"
    /\ Init /\ Worker!Init /\ Markdown!Init /\ Imports!Init /\ Editing!Init /\ Texts!Init
    /\ part # "client" => note.rev = 1
    /\ IF part = "pasted" THEN Pasted!Init /\ blocks[1].kind = "table"
       ELSE OneTable!Init /\ (part \notin Tables => blocks[1].kind = "line")

ClientStep == Only("client") /\ Next
RestoringStep == Only("restoring") /\ Restoring!Next
RecoveringStep == Only("recovering") /\ Recoverer!Next
WorkerStep == Only("worker") /\ Worker!Next
MarkdownStep == Only("markdown") /\ Markdown!Next
ImportsStep == Only("imports") /\ Imports!Next
EditingStep == Only("editing") /\ Editing!Next
SwitchingStep == Only("switching") /\ Switching!Next
DisturbedStep == Only("disturbed") /\ Disturbed!Next
OneTableStep == Only("one table") /\ OneTable!Next
TwoTablesStep == Only("two tables") /\ TwoTables!Next
RetypedStep == Only("retyped") /\ Retyped!Next
PastedStep == Only("pasted") /\ Pasted!Next
TextsStep == Only("texts") /\ Texts!Next
ItemsStep == Only("items") /\ Items!Next

RootNext == ClientStep \/ RestoringStep \/ RecoveringStep \/ WorkerStep
            \/ MarkdownStep \/ ImportsStep
            \/ EditingStep \/ SwitchingStep \/ DisturbedStep
            \/ OneTableStep \/ TwoTablesStep \/ RetypedStep \/ PastedStep
            \/ TextsStep \/ ItemsStep

RootSpec == RootInit /\ [][RootNext]_everything

(*****************************************************************************)
(* ApplicationClient: an operation is applied once and reported truly, and   *)
(* what the agent reads is what the account had, unless it recovers what     *)
(* expired. (client.ts)                                                      *)
(*****************************************************************************)
ClientsSafe == ClientSafe /\ (part # "recovering" => CacheIsHonest)

(*****************************************************************************)
(* CryptoWorker: the worker seals with the key of the vault only, and stays  *)
(* unlocked as long as it must. MarkdownTransfer and ImportBatches: an       *)
(* import finds all of an export and loses nothing of other archives, and    *)
(* its report is true. (crypto.worker.ts, importExport.ts,                   *)
(* useImportExport.ts) EditorSession: what is typed, pasted or added stays   *)
(* with its note and is not lost. (integration/editor.ts, MarkdownEditor.tsx) *)
(* TableEditing: tables stay regular, and the text in them is kept; a save   *)
(* keeps them. (table.ts) ListEditing: the commands keep the document, its   *)
(* texts and their order; Enter leaves a list. (list.ts, task.ts)            *)
(*****************************************************************************)
EditorSafe ==
  /\ part \in {"editing", "switching"} => Editing!EditorSafe
  /\ part = "disturbed" => Disturbed!EditorSafe
  /\ part = "one table" => OneTable!TableSafe
  /\ part \in {"two tables", "retyped"} => TwoTables!TableSafe
  /\ part = "pasted" => Pasted!TableSafe
  /\ part \in Lists => Texts!ListSafe

ToolsSafe ==
  /\ part = "worker" => Worker!WorkerSafe
  /\ part = "markdown" => Markdown!TransferSafe
  /\ part = "imports" => Imports!ImportSafe
  /\ EditorSafe

(*****************************************************************************)
(* ApplicationClient: while nothing is recovered, no operation overwrites    *)
(* what its agent has not read (docs/application-connections.md:140): a      *)
(* write keeps every edit the note held.                                     *)
(*****************************************************************************)
OthersEditsSurvive ==
  [][part # "recovering" /\ note'.rev # Purged /\ epoch' = epoch => note.text \subseteq note'.text]_vars
===============================================================================
