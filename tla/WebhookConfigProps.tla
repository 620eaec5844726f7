------------------------ MODULE WebhookConfigProps ------------------------
(***************************************************************************)
(* What the endpoint that configures the webhooks should guarantee.        *)
(***************************************************************************)
EXTENDS WebhookConfig

\* An order topic has at most one webhook (each more of them delivers every
\* order once more) for each request that may overlap, and one for each fault:
\* the endpoint looks before it creates, but a failed update, a lost answer and
\* another request at the same time make it create what is there.
Copies(t) == {h \in HookIds : Live(h) /\ hooks[h].topic = t}
CopiesBounded ==
    \A t \in Mapped : Cardinality(Copies(t)) <= Cardinality(Callers) + faults

\* What the answer does not list as an error is done: each webhook of ours that
\* was listed, and that nobody deleted, has this server's URL, and each topic
\* that was to be created has a webhook with it unless webhooks were deleted by
\* hand; attempts that are repeated, lost or obeyed twice do not make it lie.
AnswerIsTrue ==
    \A c \in Callers : At(c, "answered") =>
        /\ \A h \in caller[c].listed \ caller[c].errors :
              Live(h) /\ Ours(hooks[h]) => Right(hooks[h])
        /\ caller[c].created => \A t \in Mapped \ caller[c].uncreated :
              \/ \E h \in Copies(t) : Right(hooks[h])
              \/ \E h \in HookIds : hooks[h] = Gone

=============================================================================
