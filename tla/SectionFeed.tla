----------------------------- MODULE SectionFeed -----------------------------
(***************************************************************************)
(* What a section parser promises its reader, without elements, reference  *)
(* counts and packets: valid sections come out in the order they were      *)
(* completed, none twice in a row, and a section that was lent keeps its   *)
(* contents until it is given back.                                        *)
(***************************************************************************)
EXTENDS Sequences

CONSTANTS
  Sections,  \* the contents of valid sections
  Handles,   \* the addresses a lent section can have
  None       \* no section yet

VARIABLES
  queue,     \* the sections waiting for the reader
  newest,    \* the section accepted last
  loans      \* the contents behind every handle the reader has

feedVars == <<queue, newest, loans>>

FeedInit == queue = <<>> /\ newest = None /\ loans = [h \in {} |-> None]

Accept(s) ==
  /\ s # newest
  /\ queue' = Append(queue, s)
  /\ newest' = s
  /\ UNCHANGED loans

Lend(h) ==
  /\ queue # <<>>
  /\ h \notin DOMAIN loans
  /\ queue' = Tail(queue)
  /\ loans' = [x \in DOMAIN loans \cup {h} |->
                 IF x = h THEN Head(queue) ELSE loans[x]]
  /\ UNCHANGED newest

GiveBack(h) ==
  /\ h \in DOMAIN loans
  /\ loans' = [x \in DOMAIN loans \ {h} |-> loans[x]]
  /\ UNCHANGED <<queue, newest>>

Clear ==
  /\ DOMAIN loans = {}
  /\ queue' = <<>> /\ newest' = None
  /\ UNCHANGED loans

FeedNext ==
  \/ \E s \in Sections : Accept(s)
  \/ \E h \in Handles : Lend(h) \/ GiveBack(h)
  \/ Clear

FeedSpec == FeedInit /\ [][FeedNext]_feedVars
=============================================================================
