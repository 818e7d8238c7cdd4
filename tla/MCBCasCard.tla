----------------------------- MODULE MCBCasCard -----------------------------
(***************************************************************************)
(* Two readers, two B-CAS cards and a card of another kind: the values are *)
(* in the configurations.                                                  *)
(***************************************************************************)
EXTENDS BCasCard

\* By hand (MCUnknownCard.cfg), and violated: AnswerFromKnownCard without its
\* exception.  The card a failed reconnection left connected answers the next call.
OnlyKnownAnswers == answered # None => answered = stat
=============================================================================
