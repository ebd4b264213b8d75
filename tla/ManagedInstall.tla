--------------------------- MODULE ManagedInstall ---------------------------
(***************************************************************************)
(* The managed speech engine on disk (internal/speech): a live bundle      *)
(* directory, the bundle an interrupted swap retired, and the inventory    *)
(* state.json.  One operation at a time holds the kernel lock; it can be   *)
(* killed between any two file-system calls, and a rename or a write can   *)
(* fail.  Versions are natural numbers, 0 meaning absent.  A model file is *)
(* <<pack, part>>; the directory entry of models/ it lives under is        *)
(* EntryOf[pack], because that is what the carry of models moves.          *)
(***************************************************************************)
EXTENDS Naturals, FiniteSets

CONSTANTS Packs,      \* the packs of the catalogue
          EntryOf,    \* EntryOf[p]: the entry of models/ that holds p's files
          Parts,      \* the files of one pack
          MaxVer,     \* bound: catalogue versions, one per daemon release
          ProtocolOf, \* ProtocolOf[v]: bundle protocol of release v
          FaultPlans  \* bound: the faults one behaviour may show

VARIABLES bundle,     \* the tree at engine/bundle
          retired,    \* the tree at engine/bundle.old
          inventory,  \* engine/state.json
          op,         \* the operation that holds the lock
          catalogue,  \* the version this daemon's catalogue pins
          answer,     \* what the last operation answered
          cut,        \* packs whose removal started and is not recorded
          faults      \* faults the environment has left
vars == <<bundle, retired, inventory, op, catalogue, answer, cut, faults>>

Files == Packs \X Parts
NoModels == [f \in Files |-> 0]
NoTree == [there |-> FALSE, rt |-> 0, models |-> NoModels]
NoInventory == [there |-> FALSE, rt |-> 0, proto |-> 0,
                packs |-> [p \in Packs |-> 0]]
Idle == [kind |-> "none", pc |-> "idle", pack |-> CHOOSE p \in Packs : TRUE,
         left |-> {}, healing |-> FALSE]
NoAnswer == [kind |-> "none", ok |-> TRUE, pack |-> Idle.pack]

\* The entries a models/ directory has: an emptied directory is pruned.
Entries(tree) == {EntryOf[f[1]] : f \in {g \in Files : tree.models[g] # 0}}

\* State: an inventory this daemon can read.  One written under another
\* protocol is discarded by EnsureRuntime and refused by the pack operations.
Readable == inventory.there /\ inventory.proto = ProtocolOf[catalogue]
PackFilesPresent(p) == \A k \in Parts : bundle.models[<<p, k>>] # 0
\* Resolve, what a lane asks for before it spawns a helper.
Resolved == Readable /\ bundle.rt # 0

Init ==
    /\ bundle = NoTree /\ retired = NoTree /\ inventory = NoInventory
    /\ op = Idle /\ catalogue = 1 /\ answer = NoAnswer /\ cut = {}
    /\ faults \in FaultPlans

Fault == faults.fail > 0 /\ faults' = [faults EXCEPT !.fail = @ - 1]
Go(pc) == op' = [op EXCEPT !.pc = pc]
Done(ok) == /\ op' = Idle
            /\ answer' = [kind |-> op.kind, ok |-> ok, pack |-> op.pack]
\* Abandoned without a change on disk: the deferred cleanup drops the stage.
Fail == Done(FALSE) /\ UNCHANGED <<bundle, retired, inventory, cut>>

Lock(kind, p) ==
    /\ op.pc = "idle"
    /\ op' = [Idle EXCEPT !.kind = kind, !.pack = p, !.pc = "recover", !.healing = TRUE]
    /\ answer' = NoAnswer
    /\ UNCHANGED <<bundle, retired, inventory, catalogue, cut, faults>>

\* recoverBundle runs under every lock, and its failures are ignored.
Recover ==
    /\ op.pc = "recover"
    /\ \/ ~retired.there /\ Go("plan") /\ UNCHANGED <<bundle, retired, faults>>
       \/ /\ retired.there /\ ~bundle.there /\ Go("plan")
          /\ \/ bundle' = retired /\ retired' = NoTree /\ UNCHANGED faults
             \/ Fault /\ UNCHANGED <<bundle, retired>>
       \/ retired.there /\ bundle.there /\ Go("carry") /\ UNCHANGED <<bundle, retired, faults>>
    /\ UNCHANGED <<inventory, catalogue, answer, cut>>

\* carryModels, one rename: an entry the live bundle already has stays behind.
Carry ==
    /\ op.pc = "carry"
    /\ \E e \in Entries(retired) \ Entries(bundle) :
         LET moved == {f \in Files : EntryOf[f[1]] = e} IN
         /\ bundle' = [bundle EXCEPT !.models =
                [f \in Files |-> IF f \in moved THEN retired.models[f] ELSE @[f]]]
         /\ retired' = [retired EXCEPT !.models =
                [f \in Files |-> IF f \in moved THEN 0 ELSE @[f]]]
    /\ UNCHANGED <<inventory, op, catalogue, answer, cut, faults>>

\* A carry that fails ends a swap with an error, and is ignored by recovery.
CarryFails ==
    /\ op.pc = "carry" /\ retired.there /\ Fault
    /\ IF op.healing THEN Go("plan") /\ UNCHANGED <<bundle, retired, inventory, cut, answer>>
                     ELSE Fail
    /\ UNCHANGED catalogue

\* A Carried that would give up the retired bundle though its models stayed there.
CarriedAnyway ==
    /\ op.pc = "carry" /\ retired' = NoTree
    /\ Go(IF op.healing THEN "plan" ELSE "record")
    /\ UNCHANGED <<bundle, inventory, catalogue, answer, cut, faults>>

\* Everything carried: the retired tree goes; its removal may fail silently.
Carried ==
    /\ op.pc = "carry" /\ Entries(retired) \subseteq Entries(bundle)
    /\ \/ retired' = NoTree /\ UNCHANGED faults
       \/ retired.there /\ Fault /\ UNCHANGED retired
    /\ Go(IF op.healing THEN "plan" ELSE "record")
    /\ UNCHANGED <<bundle, inventory, catalogue, answer, cut>>

PlanRuntime ==
    /\ op.pc = "plan" /\ op.kind = "runtime"
    /\ IF Readable /\ inventory.rt = catalogue /\ bundle.rt # 0
         THEN Done(TRUE) ELSE Go("fetch") /\ UNCHANGED answer
    /\ UNCHANGED <<bundle, retired, inventory, catalogue, cut, faults>>

PlanPack ==
    /\ op.pc = "plan" /\ op.kind = "pack"
    /\ \/ ~Readable /\ Done(FALSE)
       \/ /\ Readable /\ inventory.packs[op.pack] = catalogue /\ PackFilesPresent(op.pack)
          /\ Done(TRUE)
       \/ /\ Readable
          /\ ~(inventory.packs[op.pack] = catalogue /\ PackFilesPresent(op.pack))
          /\ Go("fetch") /\ UNCHANGED answer
    /\ UNCHANGED <<bundle, retired, inventory, catalogue, cut, faults>>

PlanRemove ==
    /\ op.pc = "plan" /\ op.kind = "remove"
    /\ \/ ~Readable /\ Done(FALSE) /\ UNCHANGED cut
       \/ Readable /\ inventory.packs[op.pack] = 0 /\ Done(TRUE) /\ UNCHANGED cut
       \/ /\ Readable /\ inventory.packs[op.pack] # 0
          /\ op' = [op EXCEPT !.pc = "unlink", !.left = Parts]
          /\ cut' = cut \union {op.pack} /\ UNCHANGED answer
    /\ UNCHANGED <<bundle, retired, inventory, catalogue, faults>>

\* fetchToStage: the download, whose size and digest must be the catalogue's.
Fetch ==
    /\ op.pc = "fetch"
    /\ \/ Go("extract") /\ UNCHANGED <<bundle, retired, inventory, cut, answer>>
       \/ Fail
    /\ UNCHANGED <<catalogue, faults>>

\* extractArchive, into a stage of its own: plain entries inside it or an error.
Extract ==
    /\ op.pc = "extract"
    /\ \/ /\ IF op.kind = "runtime" THEN Go("retire")
                ELSE op' = [op EXCEPT !.pc = "publish", !.left = Parts]
          /\ UNCHANGED <<bundle, retired, inventory, cut, answer>>
       \/ Fail
    /\ UNCHANGED <<catalogue, faults>>

\* swapBundle: the live bundle is renamed away; onto a retired tree that
\* recovery could not finish, the rename fails.
Retire ==
    /\ op.pc = "retire"
    /\ \/ ~bundle.there /\ Go("swap") /\ UNCHANGED <<bundle, retired, faults, answer>>
       \/ /\ bundle.there /\ ~retired.there /\ Go("swap")
          /\ retired' = bundle /\ bundle' = NoTree /\ UNCHANGED <<faults, answer>>
       \/ /\ bundle.there /\ Done(FALSE) /\ UNCHANGED <<bundle, retired>>
          /\ IF retired.there THEN UNCHANGED faults ELSE Fault
    /\ UNCHANGED <<inventory, catalogue, cut>>

Swap ==
    /\ op.pc = "swap"
    /\ \/ /\ op' = [op EXCEPT !.pc = "carry", !.healing = FALSE]
          /\ bundle' = [there |-> TRUE, rt |-> catalogue, models |-> NoModels]
          /\ UNCHANGED <<retired, inventory, cut, answer, faults>>
       \/ Fault /\ Fail
    /\ UNCHANGED catalogue

\* publishPackFiles: one rename per file; the directories it needs are made,
\* the bundle's own included.
Publish ==
    /\ op.pc = "publish"
    /\ \/ \E k \in op.left :
            /\ op' = [op EXCEPT !.left = @ \ {k}]
            /\ bundle' = [bundle EXCEPT !.there = TRUE,
                                        !.models[<<op.pack, k>>] = catalogue]
            /\ UNCHANGED <<retired, inventory, cut, answer, faults>>
       \/ /\ op.left = {} /\ Go("record")
          /\ UNCHANGED <<bundle, retired, inventory, cut, answer, faults>>
       \/ op.left # {} /\ Fault /\ Fail
    /\ UNCHANGED catalogue

\* removePackFiles: one unlink per file; a file already gone is no error.
Unlink ==
    /\ op.pc = "unlink"
    /\ \/ \E k \in op.left :
            /\ op' = [op EXCEPT !.left = @ \ {k}]
            /\ bundle' = [bundle EXCEPT !.models[<<op.pack, k>>] = 0]
            /\ UNCHANGED <<retired, inventory, cut, answer, faults>>
       \/ /\ op.left = {} /\ Go("record")
          /\ UNCHANGED <<bundle, retired, inventory, cut, answer, faults>>
       \/ op.left # {} /\ Fault /\ Fail
    /\ UNCHANGED catalogue

\* recordRuntime, upsertPack or dropPack, then writeState's atomic rename.
Recorded ==
    CASE op.kind = "runtime" ->
           [there |-> TRUE, rt |-> catalogue, proto |-> ProtocolOf[catalogue],
            packs |-> IF Readable THEN inventory.packs ELSE NoInventory.packs]
      [] op.kind = "pack"   -> [inventory EXCEPT !.packs[op.pack] = catalogue]
      [] op.kind = "remove" -> [inventory EXCEPT !.packs[op.pack] = 0]

Record ==
    /\ op.pc = "record"
    /\ \/ /\ inventory' = Recorded /\ Done(TRUE)
          /\ cut' = IF op.kind = "runtime" THEN cut ELSE cut \ {op.pack}
          /\ UNCHANGED <<bundle, retired, faults>>
       \/ Fault /\ Fail
    /\ UNCHANGED catalogue

\* The process dies: the kernel drops the lock, the disk stays as it is.
Crash ==
    /\ op.pc # "idle" /\ faults.crash > 0
    /\ faults' = [faults EXCEPT !.crash = @ - 1]
    /\ op' = Idle /\ answer' = NoAnswer
    /\ UNCHANGED <<bundle, retired, inventory, catalogue, cut>>

\* A newer prukka: its own release pins the catalogue.
NewRelease ==
    /\ op.pc = "idle" /\ catalogue < MaxVer
    /\ catalogue' = catalogue + 1 /\ answer' = NoAnswer
    /\ UNCHANGED <<bundle, retired, inventory, op, cut, faults>>

Next ==
    \/ Lock("runtime", Idle.pack)
    \/ \E p \in Packs : Lock("pack", p) \/ Lock("remove", p)
    \/ Recover \/ Carry \/ CarryFails \/ Carried
    \/ PlanRuntime \/ PlanPack \/ PlanRemove \/ Fetch \/ Extract
    \/ Retire \/ Swap \/ Publish \/ Unlink \/ Record
    \/ Crash \/ NewRelease

Spec == Init /\ [][Next]_vars
-----------------------------------------------------------------------------
Trees == [there : BOOLEAN, rt : 0 .. MaxVer, models : [Files -> 0 .. MaxVer]]

TypeOK ==
    /\ bundle \in Trees /\ retired \in Trees
    /\ inventory \in [there : BOOLEAN, rt : 0 .. MaxVer, proto : Nat,
                      packs : [Packs -> 0 .. MaxVer]]
    /\ op.pc \in {"idle", "recover", "carry", "plan", "fetch", "extract", "retire", "swap",
                  "publish", "unlink", "record"}
    /\ op.left \subseteq Parts /\ cut \subseteq Packs
    /\ catalogue \in 1 .. MaxVer

\* A recorded file is in the live bundle, or in the retired one under an entry
\* that a carry will still move (install.go: "installed model packs survive an
\* upgrade").  Packs whose removal was interrupted are excused.
FileReachable(f) ==
    \/ bundle.models[f] # 0
    \/ /\ retired.there /\ retired.models[f] # 0
       /\ EntryOf[f[1]] \notin Entries(bundle)
RecordedFilesSurvive ==
    \A p \in Packs : inventory.packs[p] # 0 /\ p \notin cut =>
        \A k \in Parts : FileReachable(<<p, k>>)

\* Once recorded, a runtime is always on disk, live or retired.
RuntimeSurvives == inventory.there => bundle.rt # 0 \/ retired.rt # 0

\* What an operation reports is what is on disk when it reports: the runtime
\* and packs of this very release, and no pack left behind by the swap.
AnswerIsTrue ==
    answer.ok =>
      CASE answer.kind = "runtime" ->
             /\ bundle.rt = catalogue /\ inventory.rt = catalogue /\ Resolved
             /\ \A p \in Packs : inventory.packs[p] # 0 /\ p \notin cut => PackFilesPresent(p)
        [] answer.kind = "pack" ->
             /\ inventory.packs[answer.pack] = catalogue
             /\ \A k \in Parts : bundle.models[<<answer.pack, k>>] = catalogue
        [] answer.kind = "remove" ->
             inventory.packs[answer.pack] = 0
        [] OTHER -> TRUE
=============================================================================
