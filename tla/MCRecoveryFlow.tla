--------------------------- MODULE MCRecoveryFlow ---------------------------
(* Model-checking instances of RecoveryFlow: the payloads that are submitted. *)
EXTENDS RecoveryFlow, TLC

\* A code that was not sent is a wrong one.
CodeForms == {[NoPayload EXCEPT !.code = c] : c \in Codes}

\* What the forms of version 1 send: an email address or a code.
OldForms ==
    CodeForms \cup {[NoPayload EXCEPT !.email = e] : e \in {"known", "unknown"}}

\* What those of version 2 send: the address, the choice, its confirmation or a
\* resend, a code.
NewForms ==
    CodeForms
    \cup {[NoPayload EXCEPT !.address = a] : a \in Addresses}
    \cup {[NoPayload EXCEPT !.address = "several", !.select = s] :
              s \in {"same", "other"}}
    \cup {[NoPayload EXCEPT !.address = "several", !.confirm = "known"]}

\* screen=previous, which every flow takes: with an email address also one that
\* is in sent_email or passed_challenge, where a payload without is a code.
Back ==
    {[NoPayload EXCEPT !.email = "known", !.address = a, !.back = TRUE] :
         a \in {"only", "several"}}

\* Every flow may be sent any of them.
AllBodies == OldForms \cup NewForms \cup Back

\* Both versions.
MCSetups == [dialect : {"returning"}, version : 1 .. 2]

\* Version 1 only.
OldSetups == [dialect : {"returning"}, version : {1}]

Symmetric == Permutations(Codes)
=============================================================================
