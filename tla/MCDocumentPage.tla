--------------------------- MODULE MCDocumentPage ---------------------------
EXTENDS DocumentPage

CONSTANTS u1, u2, t1, t2

\* A scenario: the parts of the page in use, who has the tabs, the direct grants,
\* and the bounds.
Scenario(parts, user, grants0, calls0, typed, losses, reloads, items, edits) ==
    [parts |-> parts, user |-> user, grants |-> grants0,
     bound |-> [calls |-> calls0, typed |-> typed, losses |-> losses,
                reloads |-> reloads, items |-> items, proposed |-> items,
               edits |-> edits]]

Both == t1 :> u1 @@ t2 :> u2
Same == t1 :> u2 @@ t2 :> u2
Editor == u1 :> None @@ u2 :> "EDITOR"

MCPlans ==
    {Scenario({"content"}, Both, Editor, 4, 3, 1, 1, 0, 0),
     Scenario({"content", "sharing"}, Both, Editor, 3, 1, 0, 0, 0, 0),
     Scenario({"title"}, Both, Editor, 3, 2, 1, 0, 0, 0),
     Scenario({"comments"}, Same, Editor, 4, 0, 1, 1, 2, 0),
     Scenario({"comments", "sharing"}, Both, Editor, 4, 0, 0, 0, 2, 0),
     Scenario({"suggestions"}, Both, Editor, 4, 0, 1, 0, 1, 1)}

RecordPlans == {Scenario({"suggestions"}, Both, Editor, 4, 0, 0, 0, 1, 1)}
=============================================================================
