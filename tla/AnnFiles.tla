---- MODULE AnnFiles ----
(***************************************************************************)
(* The files of the neural network engine: sml_save and sml_load           *)
(* (_sml_ann_save and _sml_ann_load in src/sml/sml_ann/src/sml_ann.c), cut *)
(* where the process may die or a write may fail.                          *)
(*                                                                         *)
(* Network i of a save is kept in two files, ann_i and ann_cfg_i; the one  *)
(* network of the pseudorehearsal strategy in a file of its own, which the *)
(* cleaning of the directory does not touch.  A file is a record of the    *)
(* network it was written for and whether it was written to its end.  The  *)
(* engine is reduced to its cache of networks (AnnEngine has the rest):    *)
(* "id" stands for what a network has learnt.                              *)
(*                                                                         *)
(* A crash is the death of the process: what it wrote before stays.        *)
(***************************************************************************)
EXTENDS Integers, Sequences, SequencesExt

CONSTANTS
    CacheLimit,   \* networks the cache holds
    MaxIds,       \* bound: states of knowledge
    MaxSaves      \* bound: calls of sml_save that get to the directory

ASSUME FilesAssumption == CacheLimit \in Nat \ {0} /\ MaxIds \in Nat /\ MaxSaves \in Nat

VARIABLES
    nets,         \* the cache, least recently used first
    single,       \* use_pseudorehearsal: one network, in a file of its own
    first_run,    \* no sml_process since the engine was made
    files,        \* the directory: a function on the names of its files
    at,           \* idle, or the step of sml_save the process is at
    u,            \* the network the save is at, a position in the cache
    annIdx,       \* number of the next pair of files
    ids,          \* states of knowledge so far
    saved,        \* history: what each save found trained
    finish        \* history: how the last save ended

filesVars == <<nets, single, first_run, files, at, u, annIdx, ids, saved, finish>>

Ann(n) == <<"ann", n>>
Cfg(n) == <<"cfg", n>>
PseudoFile == <<"pseudo", 0>>

\* The names clean_dir(path, "ann_") looks for: "ann_cfg_" starts like that.
\* Mutant: the prefix of the network files alone.
AnnFilesCleaned(f) == f[1] = "ann"

Cleaned(f) == f[1] \in {"ann", "cfg"}

Start(f, id) == [g \in DOMAIN files \cup {f} |->
                    IF g = f THEN [id |-> id, whole |-> FALSE] ELSE files[g]]
End(f) == [files EXCEPT ![f].whole = TRUE]
WithoutFiles(fs) == [f \in DOMAIN files \ fs |-> files[f]]

\* The trained networks, in their order.
Learned(ns) == FoldLeft(LAMBDA found, n : IF n.trained THEN Append(found, n.id) ELSE found,
                        <<>>, ns)

\* sml_cache_put
Add(ns, n) == Append(IF Len(ns) = CacheLimit THEN Tail(ns) ELSE ns, n)

----------------------------------------------------------------------------
(* What sml_load finds in the directory.                                   *)

\* A network read from two files that do not belong together.
Mongrel == 0

Readable(f) == f \in DOMAIN files /\ files[f].whole

\* Pairs are read by number, up to the first that is not complete.
Pairs == LET last == CHOOSE n \in 0..CacheLimit :
                        /\ \A k \in 0..n - 1 : Readable(Ann(k)) /\ Readable(Cfg(k))
                        /\ ~(Readable(Ann(n)) /\ Readable(Cfg(n)))
             Both(n) == IF files[Ann(n)].id = files[Cfg(n)].id THEN files[Ann(n)].id ELSE Mongrel
         IN [k \in 1..last |-> Both(k - 1)]

Found(p) == IF ~p THEN Pairs
            ELSE IF Readable(PseudoFile) THEN <<files[PseudoFile].id>> ELSE <<>>

Loaded(seq) == FoldLeft(LAMBDA ns, id : Add(ns, [id |-> id, trained |-> TRUE]), <<>>, seq)

----------------------------------------------------------------------------
FilesInit ==
    /\ nets = <<>> /\ single = FALSE /\ first_run = TRUE
    /\ files = <<>>
    /\ at = "idle" /\ u = 0 /\ annIdx = 0
    /\ ids = 0
    /\ saved = <<>> /\ finish = [answer |-> FALSE, failed |-> FALSE, single |-> FALSE]

Directory == <<files, at, u, annIdx, saved, finish>>

NewId == ids < MaxIds /\ ids' = ids + 1

\* _sml_ann_new: with pseudorehearsal there is one network.
NewNetwork ==
    /\ at = "idle" /\ NewId
    /\ single => Len(nets) # 1
    /\ \A k \in 1..Len(nets) : nets[k].trained
    /\ nets' = Add(nets, [id |-> ids', trained |-> FALSE])
    /\ first_run' = FALSE
    /\ UNCHANGED <<single, Directory>>

\* A network is trained, or trained further; the one in use is the last.
Learn(k) ==
    /\ at = "idle" /\ NewId
    /\ nets' = Append(RemoveAt(nets, k), [id |-> ids', trained |-> TRUE])
    /\ first_run' = FALSE
    /\ UNCHANGED <<single, Directory>>

\* The strategy may change while no sml_process has run.
SetPseudorehearsal(b) ==
    /\ at = "idle" /\ first_run
    /\ single' = b
    /\ UNCHANGED <<nets, first_run, ids, Directory>>

ForgetNetworks ==
    /\ at = "idle" /\ nets # <<>>
    /\ nets' = <<>> /\ first_run' = TRUE
    /\ UNCHANGED <<single, ids, Directory>>

\* sml_load drops what the engine knows before it looks at the directory.
\* Reading may fail at any network, and so may the place in the cache, in
\* which case nothing is kept.
LoadFiles ==
    /\ at = "idle"
    /\ \E n \in 0..Len(Found(single)) : nets' = Loaded(SubSeq(Found(single), 1, n))
    /\ UNCHANGED <<single, first_run, ids, Directory>>

----------------------------------------------------------------------------
(* sml_save, step by step.                                                 *)

Step(from, to) == at = from /\ at' = to

Answer(b) == finish' = [finish EXCEPT !.answer = b]
Failed == finish' = [finish EXCEPT !.failed = TRUE]

\* With pseudorehearsal only the first network counts.
ToSave == IF single THEN <<nets[1]>> ELSE nets

\* An empty cache is refused, as is a path that is no directory.
SaveStart ==
    /\ Step("idle", "clean")
    /\ nets # <<>> /\ Len(saved) < MaxSaves
    /\ saved' = Append(saved, Learned(ToSave))
    /\ finish' = [answer |-> FALSE, failed |-> FALSE, single |-> single]
    /\ UNCHANGED <<nets, single, first_run, files, u, annIdx, ids>>

\* clean_dir removes the files in the order of the directory.
CleanOne(f) ==
    /\ at = "clean" /\ Cleaned(f)
    /\ files' = WithoutFiles({f})
    /\ UNCHANGED <<nets, single, first_run, at, u, annIdx, ids, saved, finish>>

CleanFails(f) ==
    /\ Step("clean", "idle") /\ Cleaned(f)
    /\ Failed
    /\ UNCHANGED <<nets, single, first_run, files, u, annIdx, ids, saved>>

CleanDone ==
    /\ Step("clean", "next")
    /\ \A f \in DOMAIN files : ~Cleaned(f)
    /\ u' = 1 /\ annIdx' = 0
    /\ UNCHANGED <<nets, single, first_run, files, ids, saved, finish>>

\* With pseudorehearsal the one network is written, if it is trained.
Target == IF single THEN PseudoFile ELSE Ann(annIdx)

SkipUntrained ==
    /\ at = "next" /\ u <= Len(ToSave) /\ ~nets[u].trained
    /\ u' = u + 1
    /\ UNCHANGED <<nets, single, first_run, files, at, annIdx, ids, saved, finish>>

\* fann_save creates the file ...
BeginAnn ==
    /\ Step("next", "ann")
    /\ u <= Len(ToSave) /\ nets[u].trained
    /\ files' = Start(Target, nets[u].id)
    /\ UNCHANGED <<nets, single, first_run, u, annIdx, ids, saved, finish>>

\* ... and writes it to its end.
EndAnn ==
    /\ Step("ann", IF single THEN "next" ELSE "open")
    /\ files' = End(Target)
    /\ u' = IF single THEN u + 1 ELSE u
    /\ UNCHANGED <<nets, single, first_run, annIdx, ids, saved, finish>>

\* Mutant: the number of the files does not advance.
SamePair == u' = u + 1 /\ UNCHANGED annIdx

NextPair == u' = u + 1 /\ annIdx' = annIdx + 1

\* A failure ends a save with pseudorehearsal; otherwise the loop goes on,
\* with the next number.
AnnFails ==
    /\ Step("ann", IF single THEN "idle" ELSE "next")
    /\ Failed
    /\ IF single THEN UNCHANGED <<u, annIdx>> ELSE NextPair
    /\ UNCHANGED <<nets, single, first_run, files, ids, saved>>

BeginCfg ==
    /\ Step("open", "cfg")
    /\ files' = Start(Cfg(annIdx), nets[u].id)
    /\ UNCHANGED <<nets, single, first_run, u, annIdx, ids, saved, finish>>

\* The network's file stays without its other half.
OpenCfgFails ==
    /\ Step("open", "next") /\ NextPair
    /\ Failed
    /\ UNCHANGED <<nets, single, first_run, files, ids, saved>>

EndCfg ==
    /\ Step("cfg", "next") /\ NextPair
    /\ files' = End(Cfg(annIdx))
    /\ UNCHANGED <<nets, single, first_run, ids, saved, finish>>

\* Both files are deleted, the network's first: "deleting" is in between.
CfgFails ==
    /\ Step("cfg", "deleting")
    /\ files' = WithoutFiles({Ann(annIdx)})
    /\ Failed
    /\ UNCHANGED <<nets, single, first_run, u, annIdx, ids, saved>>

DeleteCfg ==
    /\ Step("deleting", "next") /\ NextPair
    /\ files' = WithoutFiles({Cfg(annIdx)})
    /\ UNCHANGED <<nets, single, first_run, ids, saved, finish>>

SaveEnd ==
    /\ Step("next", "idle")
    /\ u > Len(ToSave)
    /\ Answer(TRUE)
    /\ UNCHANGED <<nets, single, first_run, files, u, annIdx, ids, saved>>

\* The process dies, and another one starts with a fresh engine.
Crash ==
    /\ at' = "idle" /\ nets' = <<>> /\ single' = FALSE /\ first_run' = TRUE
    /\ u' = 0 /\ annIdx' = 0
    /\ UNCHANGED <<files, ids, saved, finish>>

FilesNext ==
    \/ NewNetwork \/ \E k \in 1..Len(nets) : Learn(k)
    \/ ForgetNetworks \/ LoadFiles \/ \E b \in BOOLEAN : SetPseudorehearsal(b)
    \/ SaveStart
    \/ \E f \in DOMAIN files : CleanOne(f) \/ CleanFails(f)
    \/ CleanDone \/ SkipUntrained
    \/ BeginAnn \/ EndAnn \/ AnnFails
    \/ BeginCfg \/ OpenCfgFails \/ EndCfg \/ CfgFails \/ DeleteCfg
    \/ SaveEnd \/ Crash

FilesSpec == FilesInit /\ [][FilesNext]_filesVars

----------------------------------------------------------------------------
\* What is on the disk comes from one save: whenever the process dies and
\* whatever write failed, sml_load never mixes the networks of two saves,
\* nor brings them back in another order of use (clean_dir before the first
\* write, and the numbering of the files).
NeverMixed ==
    \A p \in BOOLEAN :
        Found(p) = <<>> \/ \E s \in 1..Len(saved) : IsPrefix(Found(p), saved[s])

\* A save that answered true and had no failed write keeps every trained
\* network until the next save begins, whatever dies meanwhile.  The one
\* exception the code makes: with pseudorehearsal and an untrained network
\* nothing is written, and an older file stays.
Durable ==
    at = "idle" /\ finish.answer /\ ~finish.failed =>
        \/ Found(finish.single) = Last(saved)
        \/ finish.single /\ Last(saved) = <<>>
====
