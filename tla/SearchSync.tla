----------------------------- MODULE SearchSync -----------------------------
(***************************************************************************)
(* shared/search: documents are not written to the search engine but as   *)
(* actions to a table, in the transaction that changes what they tell.     *)
(* Action processors, one in each instance of a service, take the oldest   *)
(* open action of a document (or of all, for a rebuild), skipping those    *)
(* another one has locked, do what it says to the index, and write the     *)
(* result in a second transaction.                                         *)
(***************************************************************************)
EXTENDS Naturals, Sequences, FiniteSets, SequencesExt

CONSTANTS Docs, All,        \* documents of the index; All: an action is a rebuild
          Contents, Absent, \* what a document tells, Absent if there is none
          Instances, Nobody,
          RemainingTries,   \* actionDefaultRemainingRetries
          BatchSize,        \* DefaultBatchSize
          MaxActions,       \* bound: actions in the table at the same time
          MaxSearchFaults   \* bound: failures of the engine and crashes

ASSUME SearchConstants == /\ All \notin Docs /\ Absent \notin Contents /\ Nobody \notin Instances
                          /\ RemainingTries \in Nat \ {0} /\ BatchSize \in Nat \ {0}

VARIABLES table,      \* what is committed about a document
          actions,    \* table __search_actions by id, without those that are closed
          index,      \* what the engine has
          processor,  \* what an instance is doing
          searchFaults,
          gaveUp,     \* documents with an action that ran out of tries since they were last written
          overtaken   \* documents written by a rebuild from older reads than another instance did

searchVars == <<table, actions, index, processor, searchFaults, gaveUp, overtaken>>

Action == [doc : Docs \cup {All}, content : Contents \cup {Absent}, remainingTries : 1..RemainingTries,
           failed : BOOLEAN, committed : BOOLEAN, by : Instances \cup {Nobody}]
Idle == [pc |-> "idle", batch |-> <<>>, others |-> {}]
-----------------------------------------------------------------------------
SearchInit == /\ table = [d \in Docs |-> Absent] /\ index = table
              /\ actions = <<>>
              /\ processor = [p \in Instances |-> Idle]
              /\ searchFaults = 0 /\ gaveUp = {} /\ overtaken = {}

\* scheduleSafeAction
scheduleSafeAction(d, content, committed) ==
    /\ Len(actions) < MaxActions
    /\ actions' = Append(actions, [doc |-> d, content |-> content, remainingTries |-> RemainingTries,
                                   failed |-> FALSE, committed |-> committed, by |-> Nobody])

\* A transaction writes a row, which it locks, and the action with its document.
SafeAddOrUpdateDocument(d, content) ==
    /\ \A i \in 1..Len(actions) : actions[i].doc = d => actions[i].committed
    /\ scheduleSafeAction(d, content, FALSE)
    /\ UNCHANGED <<table, index, processor, searchFaults, gaveUp, overtaken>>
SafeDeleteDocumentByID(d) == SafeAddOrUpdateDocument(d, Absent)
CommitChange(i) ==
    /\ ~actions[i].committed
    /\ actions' = [actions EXCEPT ![i].committed = TRUE]
    /\ table' = [table EXCEPT ![actions[i].doc] = actions[i].content]
    /\ UNCHANGED <<index, processor, searchFaults, gaveUp, overtaken>>
AbortChange(i) ==
    /\ ~actions[i].committed
    /\ actions' = RemoveAt(actions, i)
    /\ UNCHANGED <<table, index, processor, searchFaults, gaveUp, overtaken>>
SafeRebuildIndex ==
    /\ \A i \in 1..Len(actions) : actions[i].doc # All
    /\ scheduleSafeAction(All, Absent, TRUE)
    /\ UNCHANGED <<table, index, processor, searchFaults, gaveUp, overtaken>>
-----------------------------------------------------------------------------
(* next and the handlers.                                                  *)

\* Mutant: any open action will do.
AnyOpen(i) == actions[i].committed
\* The ids the query for the oldest of each group returns.
OldestOfGroup(i) ==
    /\ actions[i].committed
    /\ \A k \in 1..(i - 1) : actions[k].committed => actions[k].doc # actions[i].doc

\* With the lowest id, but failed actions may be cooling down.
Next_(i) ==
    LET candidates == {k \in 1..Len(actions) : OldestOfGroup(k) /\ actions[k].by = Nobody}
    IN  i \in candidates /\ \A k \in candidates : k < i => actions[k].failed

takeNext(p, i) ==
    /\ processor[p].pc = "idle"
    /\ Next_(i)
    /\ actions' = [actions EXCEPT ![i].by = p]
    /\ processor' = [processor EXCEPT ![p].pc = "next"]
    /\ UNCHANGED <<table, index, searchFaults, gaveUp, overtaken>>

Step(p, state) == processor' = [processor EXCEPT ![p] = state] /\ UNCHANGED <<table, actions, searchFaults>>

handleActionTypeAddOrUpdateDocument(p, i) ==
    LET d == actions[i].doc
    IN  /\ actions[i].by = p /\ d # All /\ processor[p].pc = "next"
        /\ index' = [index EXCEPT ![d] = actions[i].content]
        /\ processor' = [q \in Instances |->
                            IF q = p THEN [Idle EXCEPT !.pc = "handled"]
                            ELSE IF processor[q].pc = "retrieved" THEN [processor[q] EXCEPT !.others = @ \cup {d}]
                            ELSE processor[q]]
        /\ overtaken' = overtaken \ {d} /\ gaveUp' = gaveUp \ {d}
        /\ UNCHANGED <<table, actions, searchFaults>>

DeleteAllDocuments(p, i) ==
    /\ actions[i].by = p /\ actions[i].doc = All /\ processor[p].pc = "next"
    /\ index' = [d \in Docs |-> Absent]
    /\ Step(p, [Idle EXCEPT !.pc = "emptied"])
    /\ gaveUp' = {}
    /\ UNCHANGED overtaken
\* The documents are made from what is committed by now.  The first batch is never sent before the
\* last document; it has no place for one more than BatchSize, and the process ends.
documentRetriever(p) ==
    /\ processor[p].pc = "emptied"
    /\ Cardinality({d \in Docs : table[d] # Absent}) <= BatchSize
    /\ Step(p, [Idle EXCEPT !.pc = "retrieved", !.batch = table])
    /\ UNCHANGED <<index, overtaken, gaveUp>>
UpdateDocumentsInBatch(p) ==
    /\ processor[p].pc = "retrieved"
    /\ LET batch == processor[p].batch
       IN  index' = [d \in Docs |-> IF batch[d] = Absent THEN index[d] ELSE batch[d]]
    /\ overtaken' = processor[p].others
    /\ Step(p, [Idle EXCEPT !.pc = "handled"])
    /\ UNCHANGED gaveUp

WriteResult(p, i) ==
    /\ actions[i].by = p /\ processor[p].pc = "handled"
    /\ actions' = RemoveAt(actions, i)
    /\ processor' = [processor EXCEPT ![p] = Idle]
    /\ UNCHANGED <<table, index, searchFaults, gaveUp, overtaken>>

\* The engine fails before it has done what is asked for.
WriteFailure(p, i) ==
    /\ actions[i].by = p /\ processor[p].pc \in {"next", "emptied", "retrieved"}
    /\ searchFaults < MaxSearchFaults /\ searchFaults' = searchFaults + 1
    /\ IF actions[i].remainingTries > 1
       THEN /\ actions' = [actions EXCEPT ![i] = [@ EXCEPT !.by = Nobody, !.failed = TRUE,
                                              !.remainingTries = actions[i].remainingTries - 1]]
            /\ UNCHANGED gaveUp
       ELSE /\ actions' = RemoveAt(actions, i)
            /\ gaveUp' = gaveUp \cup (IF actions[i].doc = All THEN Docs ELSE {actions[i].doc})
    /\ processor' = [processor EXCEPT ![p] = Idle]
    /\ UNCHANGED <<table, index, overtaken>>

\* A crash gives the lock back and leaves the action as it was.
Restart(p, i) ==
    /\ actions[i].by = p
    /\ actions' = [actions EXCEPT ![i].by = Nobody]
    /\ processor' = [processor EXCEPT ![p] = Idle]
    /\ UNCHANGED <<table, index, gaveUp, overtaken>>
Crash(p, i) == searchFaults < MaxSearchFaults /\ searchFaults' = searchFaults + 1 /\ Restart(p, i)
Panic(p, i) ==
    /\ processor[p].pc = "emptied"
    /\ Cardinality({d \in Docs : table[d] # Absent}) > BatchSize
    /\ Restart(p, i)
    /\ UNCHANGED searchFaults

\* run, without what fails.
run(p) ==
    \/ documentRetriever(p) \/ UpdateDocumentsInBatch(p)
    \/ \E i \in 1..Len(actions) : \/ takeNext(p, i)
                                  \/ handleActionTypeAddOrUpdateDocument(p, i) \/ DeleteAllDocuments(p, i)
                                  \/ WriteResult(p, i) \/ Panic(p, i)

SearchNext ==
    \/ \E d \in Docs : \/ \E content \in Contents : SafeAddOrUpdateDocument(d, content)
                       \/ SafeDeleteDocumentByID(d)
    \/ SafeRebuildIndex
    \/ \E i \in 1..Len(actions) : \/ CommitChange(i) \/ AbortChange(i)
                                  \/ \E p \in Instances : WriteFailure(p, i) \/ Crash(p, i)
    \/ \E p \in Instances : run(p)

SearchSpec == SearchInit /\ [][SearchNext]_searchVars /\ \A p \in Instances : WF_searchVars(run(p))
-----------------------------------------------------------------------------
(* Properties.                                                             *)

SearchTypeOK == /\ table \in [Docs -> Contents \cup {Absent}] /\ index \in [Docs -> Contents \cup {Absent}]
                /\ Range(actions) \subseteq Action
                /\ gaveUp \subseteq Docs /\ overtaken \subseteq Docs

\* When nothing is left to do for a document, the index has what is committed, whatever was retried,
\* done twice or rebuilt meanwhile - unless tries ran out or two instances overtook each other
\* during a rebuild.
IndexCatchesUp ==
    \A d \in Docs \ (gaveUp \cup overtaken) :
        (\A a \in Range(actions) : a.committed => a.doc \notin {d, All}) => index[d] = table[d]

\* Rebuild "deletes all documents ..., and then adds documents by reading from the passed channel",
\* DefaultBatchSize being "the default size for batches": it comes to an end, with or without
\* success.  The specification only asks instances to go on, also after a restart.
RebuildsEnd == (All \in {a.doc : a \in Range(actions)}) ~> (All \notin {a.doc : a \in Range(actions)})
=============================================================================
