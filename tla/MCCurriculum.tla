--------------------------- MODULE MCCurriculum ---------------------------
(* The two halves of the pipeline share the worker that parses and then    *)
(* asks for a consolidation, and nothing else: a behaviour of this module  *)
(* asks either for changes of the sources, with crashes, or of the drafts. *)
(* A third kind is about the topics inside one document.                   *)
EXTENDS CurriculumPipeline, FullYear, SequencesExt

VARIABLE focus

all == <<vars, yearVars, focus>>

\* The second of two weeks is the reserved one.
MCStandard == [w \in {2} |-> {2}]

\* Up to two blocks of a first, a second or a made-up third term, in which a
\* week is missing, has no number, or comes twice.
MCTopic(w, t) == [week |-> w, title |-> t]
MCTopics ==
  {<< >>, <<MCTopic(0, {})>>, <<MCTopic(2, {})>>,
   <<MCTopic(2, {2}), MCTopic(2, {})>>, <<MCTopic(1, {}), MCTopic(0, {})>>}
MCAnswers == SeqOf([term : 1 .. 3, topics : MCTopics], 2) \cup {NoTerms}

\* Bound: beside the drafts no parse needs a second attempt.
Retried == \E s \in Sources, m \in 1 .. Attempts - 1 : waiting[<<s, m>>] > 0

MCInit == Init /\ YearInit /\ focus \in {"sources", "drafts", "topics"}

MCNext ==
  \/ /\ focus \in {"sources", "drafts"}
     /\ \/ Proceeding
        \/ /\ focus = "sources"
           /\ Crash \/ \E r \in Requests : AskOfSource(r)
        \/ /\ focus = "drafts"
           /\ EditDraft \/ \E r \in Requests : AskOfDraft(r)
     /\ focus = "drafts" => ~Retried'
     /\ UNCHANGED <<yearVars, focus>>
  \/ /\ focus = "topics"
     /\ YearNext
     /\ UNCHANGED <<vars, focus>>

MCSpec == MCInit /\ [][MCNext]_all /\ Fairness

TypesOK == TypeOK /\ YearTypeOK
=============================================================================
