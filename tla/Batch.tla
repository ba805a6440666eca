------------------------------- MODULE Batch -------------------------------
(***************************************************************************)
(* CalculateBatch: Calculator::batch (src/service/calculator.rs) evaluates *)
(* its requests in parallel on rayon's workers, each as CalculatePerform-  *)
(* ance would, over the one cache they share; `collect` into a Result      *)
(* keeps the first error that a worker reports, starts no further request  *)
(* after it, and otherwise puts the responses in the order of the          *)
(* requests.                                                               *)
(*                                                                         *)
(* The batch's requests are the requests 1, 2, ... of BeatmapLoader. A     *)
(* response stands for the beatmap it is computed from: the computation    *)
(* that follows the load cannot fail and touches nothing shared.           *)
(***************************************************************************)
EXTENDS BeatmapLoader

CONSTANTS
    MAX_BATCH_SIZE,     \* 100
    Batches             \* the batches a client may send

BatchItem == [source : Source, target : Target]

ASSUME BatchAssumption ==
    /\ MAX_BATCH_SIZE \in Nat
    /\ Batches \subseteq Seq(BatchItem)
    /\ \A b \in Batches : DOMAIN b \subseteq Request

VARIABLES
    batch,
    saved,      \* the first error, shared by the workers
    result      \* what the client gets: the responses, or one error

batchVars == <<loaderVars, batch, saved, result>>

BatchInit ==
    /\ LoaderInit
    /\ batch \in Batches
    /\ saved = None
    /\ result = None

Items == DOMAIN batch

(* A Result: the responses, or one error. *)
Ok(responses) == [error |-> None, responses |-> responses]

Err(error) == [error |-> error, responses |-> <<>>]

InFlight == {i \in Items : pc[i] \notin {"idle", "done"}}

RejectTooLarge ==
    /\ result = None
    /\ Len(batch) > MAX_BATCH_SIZE
    /\ result' = Err("BatchTooLarge")
    /\ UNCHANGED <<loaderVars, batch, saved>>

(* A worker takes any item that is left, unless one has failed. *)
StartItem(i) ==
    /\ Len(batch) <= MAX_BATCH_SIZE
    /\ saved = None
    /\ Submit(i, batch[i].source, batch[i].target)
    /\ UNCHANGED <<batch, saved, result>>

WorkOnItem(i) ==
    /\ Load(i)
    /\ saved' = IF saved = None /\ answer'[i] \in Error THEN answer'[i] ELSE saved
    /\ UNCHANGED <<batch, result>>

CollectWhatIsThere ==
    /\ result = None
    /\ Len(batch) <= MAX_BATCH_SIZE
    /\ \E i \in Items : pc[i] = "done"
    /\ result' = IF saved = None THEN Ok([i \in Items |-> answer[i]]) ELSE Err(saved)
    /\ UNCHANGED <<loaderVars, batch, saved>>

CollectServed ==
    /\ result = None
    /\ Len(batch) <= MAX_BATCH_SIZE
    /\ InFlight = {}
    /\ saved # None \/ \A i \in Items : pc[i] = "done"
    /\ result' = Ok(SelectSeq([i \in Items |-> answer[i]], LAMBDA a : a \in Beatmap))
    /\ UNCHANGED <<loaderVars, batch, saved>>

CollectBackwards ==
    /\ result = None
    /\ Len(batch) <= MAX_BATCH_SIZE
    /\ InFlight = {}
    /\ saved # None \/ \A i \in Items : pc[i] = "done"
    /\ result' = IF saved = None THEN Ok([i \in Items |-> answer[Len(batch) + 1 - i]])
                 ELSE Err(saved)
    /\ UNCHANGED <<loaderVars, batch, saved>>

(* Every worker is through with its item. *)
Collect ==
    /\ result = None
    /\ Len(batch) <= MAX_BATCH_SIZE
    /\ InFlight = {}
    /\ saved # None \/ \A i \in Items : pc[i] = "done"
    /\ result' = IF saved = None THEN Ok([i \in Items |-> answer[i]]) ELSE Err(saved)
    /\ UNCHANGED <<loaderVars, batch, saved>>

Answered ==
    /\ result # None
    /\ UNCHANGED batchVars

BatchNext ==
    \/ RejectTooLarge
    \/ \E i \in Items : StartItem(i) \/ WorkOnItem(i)
    \/ Collect
    \/ \E p \in Path, c \in Content \cup {NoFile} :
          UpdateFile(p, c) /\ UNCHANGED <<batch, saved, result>>
    \/ Answered

BatchSpec == BatchInit /\ [][BatchNext]_batchVars

-----------------------------------------------------------------------------

BatchTypeOK ==
    /\ LoaderTypeOK
    /\ batch \in Seq(BatchItem)
    /\ saved \in Error \cup {None}
    /\ result # None =>
          result \in [error : Error \cup {"BatchTooLarge", None}, responses : Seq(Beatmap)]

(* What one request of a batch would get if it came alone to a service that
   has just started. *)
Alone(item) ==
    IF item.source = NoSource THEN "MissingBeatmap"
    ELSE IF FromBytes[item.source] = Unparsable THEN "Parse"
    ELSE Outcome(FromBytes[item.source], item.target)

(* A batch of contents is as good as its requests one by one: it gets all
   their responses in their order, or fails with the error of one of them
   (calculator.rs:76-80). It holds although the requests race for the cache,
   as long as the cache has room and ids identify beatmaps. *)
BatchAsSingles ==
    LET singles == [i \in Items |-> Alone(batch[i])]
        errors == {singles[i] : i \in Items} \cap Error
    IN  result # None /\ (\A i \in Items : batch[i].source \notin Path) =>
            CASE Len(batch) > MAX_BATCH_SIZE                  -> result = Err("BatchTooLarge")
              [] Len(batch) <= MAX_BATCH_SIZE /\ errors = {}  -> result = Ok(singles)
              [] OTHER                                        -> \E e \in errors : result = Err(e)

(* Whatever the cache evicts, the ids that files share and the changes to the
   files that its requests name, a batch that is not too large gets as its
   i-th response a beatmap that LoadContract admits for its i-th request, or
   an error that it admits for some request (calculator.rs:76-80). *)
BatchWithinContract ==
    LET Admitted(i, a) == Contract!Admissible(batch[i].source, batch[i].target, a)
    IN  result # None /\ Len(batch) <= MAX_BATCH_SIZE =>
            IF result.error = None
            THEN /\ Len(result.responses) = Len(batch)
                 /\ \A i \in Items : /\ result.responses[i] \in Beatmap
                                     /\ Admitted(i, result.responses[i])
            ELSE /\ result = Err(result.error)
                 /\ \E i \in Items : Admitted(i, result.error)

=============================================================================
