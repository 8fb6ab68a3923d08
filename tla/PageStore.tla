----------------------------- MODULE PageStore -----------------------------
(***************************************************************************)
(* What a buffer pool promises: a file whose pages keep what was last      *)
(* written to them.  A client works on a page between pinning and          *)
(* unpinning it.  Neither frames nor the disk appear.                      *)
(***************************************************************************)
CONSTANTS Clients, Pages, Data,
          Zero,          \* the content of a fresh page
          Unallocated    \* the content of a page that is not in the file

VARIABLES content,       \* what every page holds
          working        \* the pages a client works on

vars == <<content, working>>

Init ==
    /\ content \in [Pages -> Data \cup {Unallocated}]
    /\ working = [c \in Clients |-> {}]

Pin(c, p) ==
    /\ content[p] # Unallocated
    /\ working' = [working EXCEPT ![c] = @ \cup {p}]
    /\ UNCHANGED content

Allocate(c, p) ==
    /\ content[p] = Unallocated
    /\ content' = [content EXCEPT ![p] = Zero]
    /\ working' = [working EXCEPT ![c] = @ \cup {p}]

Write(c, p, d) ==
    /\ p \in working[c]
    /\ content' = [content EXCEPT ![p] = d]
    /\ UNCHANGED working

Unpin(c, p) ==
    /\ p \in working[c]
    /\ working' = [working EXCEPT ![c] = @ \ {p}]
    /\ UNCHANGED content

Next ==
    \E c \in Clients, p \in Pages :
        \/ Pin(c, p)
        \/ Allocate(c, p)
        \/ \E d \in Data : Write(c, p, d)
        \/ Unpin(c, p)

Spec == Init /\ [][Next]_vars
=============================================================================
