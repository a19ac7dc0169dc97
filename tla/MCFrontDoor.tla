---------------------------- MODULE MCFrontDoor ----------------------------
(***************************************************************************)
(* Strangers at the door: tenants that sign up (two addresses, two         *)
(* aliases, two requests at once) and reports by mail (two messages, two   *)
(* deliveries at once).  They share no state: a behaviour moves the one in *)
(* focus and the other rests.                                              *)
(***************************************************************************)
EXTENDS Signup, Intake, TLC

CONSTANTS p1, p2

VARIABLE focus

-----------------------------------------------------------------------------
(* Documents and letters *)

Report(p, t) == [property |-> p, type |-> t]
Page(whole, sections) ==
    [readable |-> TRUE, pdf |-> TRUE, large |-> FALSE, parses |-> TRUE,
     whole |-> whole, sections |-> sections]

flash == Page(Report(p1, "flash"), <<>>)
corrupt == [Page(NoReport, <<>>) EXCEPT !.readable = FALSE]
huge == [flash EXCEPT !.large = TRUE]
pack == Page(NoReport, <<NoReport, Report(p1, "flash"), Report(p1, "trial")>>)
mixed == Page(NoReport, <<Report(p1, "trial"), Report(p1, "aging"), Report(p2, "trial")>>)

pass(method, domain) == {[method |-> method, domain |-> domain]}
From(auth, docs) == [domain |-> "mail.pms", auth |-> auth, docs |-> docs]

Letters ==
    {From(pass("dkim", "pms"), <<>>), From(pass("spf", "mail.pms"), <<flash, corrupt, huge>>),
     From(pass("dkim", "pms"), <<pack, mixed>>)}
AnyLetter == Letters
Parents == {<<"pms", "mail.pms">>}
Lists == {{}, {"pms"}}

-----------------------------------------------------------------------------
(* One component moves in a behaviour, so the others may use its names. *)
FrontDoorAlike == Permutations(Request) \cup Permutations(Email) \cup Permutations(Alias)

FrontDoorInit ==
    /\ focus \in {"signup", "intake"}
    /\ SgInit /\ InInit

FrontDoorNext ==
    /\ \/ focus = "signup" /\ SgNext /\ UNCHANGED inVars
       \/ focus = "intake" /\ InNext /\ UNCHANGED sgVars
    /\ UNCHANGED focus

FrontDoorSpec == FrontDoorInit /\ [][FrontDoorNext]_<<focus, sgVars, inVars>>
=============================================================================
