---------------------------- MODULE MCEditorBridge ----------------------------
(* Instances of EditorBridge for TLC. *)
EXTENDS EditorBridge

MCLetters == {"x"}

A == Item(1, "text", "a", Plain)
Heading == Item(1, "delim", None, "h")
Par == Item(2, "delim", None, Paragraph)

MCDocuments == {<<>>, <<A>>, <<Heading, [A EXCEPT !.id = 3], Par>>}

Plan(k, p, i, s, w) ==
    [e \in Events |-> CASE e = "key" -> k [] e = "peer" -> p [] e = "import" -> i
                        [] e = "slow" -> s [] e = "write" -> w]

MCPlans == {Plan(2, 1, 0, 0, 0), Plan(1, 1, 1, 0, 1), Plan(0, 1, 1, 1, 0)}

\* Two keys and a remote batch on a one-letter document.
RacePlans == {Plan(2, 1, 0, 0, 0)}
RaceDocuments == {<<A>>}

\* A slow worker.
SlowPlans == {Plan(0, 1, 1, 1, 0)}
=============================================================================
