-------------------------- MODULE MCDeliveryEvents --------------------------
(***************************************************************************)
(* Values for DeliveryEvents.  Four soft bounces, of which only the last   *)
(* three lie within the window; and a hard bounce reported twice with a    *)
(* complaint, a refusal and a failure, beside the links and the            *)
(* administrator.                                                          *)
(***************************************************************************)
EXTENDS DeliveryEvents, TLC

CONSTANTS s1, s2, s3, s4, h, c, p, f, h2, r1, r2, r3, k1, k2

MCKind == (s1 :> "soft") @@ (s2 :> "soft") @@ (s3 :> "soft") @@ (s4 :> "soft")
          @@ (h :> "hard") @@ (c :> "complaint") @@ (p :> "refused") @@ (f :> "failed")
MCOccurredAt == (s1 :> 0) @@ (s2 :> 3) @@ (s3 :> 5) @@ (s4 :> 7)
                @@ (h :> 0) @@ (c :> 0) @@ (p :> 0) @@ (f :> 0)
\* h2 is a second message about the hard bounce.
MCAbout == [m \in {s1, s2, s3, s4, h, c, p, f, h2} |-> IF m = h2 THEN h ELSE m]

Scene(messages, sent, operations, requests) ==
    [messages |-> messages, sent |-> sent, operations |-> operations, requests |-> requests]
AddressLinks == {"leave", "return", "unsuppress"}
ListRequests == {"leaveList", "returnToList", "addMember", "removeMember"}
MCScenes == {Scene({s1, s2, s3, s4}, {TRUE}, AddressLinks, {r1, r2}),
             Scene({h, h2}, {FALSE}, {"suppress", "unsuppress"}, {r1, r2}),
             Scene({h, c}, {FALSE}, AddressLinks, {r1, r2, r3}),
             Scene({p, f}, {FALSE}, AddressLinks, {r1, r2}),
             Scene({h}, {TRUE}, ListRequests, {r1, r2, r3}),
             Scene({c}, {TRUE}, ListRequests, {r1, r2, r3})}
=============================================================================
