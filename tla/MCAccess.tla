------------------------------ MODULE MCAccess ------------------------------
(***************************************************************************)
(* Pairing, with the sessions and devices it uses, the grants of the       *)
(* owner's assistants and the calls of tools, on small instances.          *)
(* Together all operations have too many interleavings, so that a          *)
(* behaviour follows one scenario: some of the operations, with the        *)
(* identifiers and faults they need.  The properties are checked of every  *)
(* scenario.                                                               *)
(***************************************************************************)
EXTENDS Pairing, McpGrants, ToolCalls, TLC

CONSTANTS OneId, OneDevice

VARIABLE scenario

Few == 2

\* Chains of refreshes of one browser session.
Tokens == INSTANCE Pairing WITH
  Ops <- {"logout", "logoutAll"}, Ids <- OneId, Devices <- {}, Pairs <- {},
  Faults <- {"crash", "store"}

\* Log-outs everywhere while sessions are begun and refreshed.
Outs == INSTANCE Pairing WITH
  Ops <- {"logout", "logoutAll"}, MaxTokens <- Few, Devices <- {}, Pairs <- {},
  Faults <- {"crash", "store"}

\* Registrations of one session on two devices that are being revoked.
Bindings == INSTANCE Pairing WITH
  Ops <- {"register", "revoke"}, MaxTokens <- Few, Ids <- OneId, Pairs <- {},
  Faults <- {"store"}

\* Registrations and renames.
Names == INSTANCE Pairing WITH
  Ops <- {"register", "rename"}, MaxTokens <- Few, Ids <- OneId, Pairs <- {}, Faults <- {}

\* Pairings confirmed twice, with wrong codes among them.
WrongCodes == INSTANCE Pairing WITH
  Ops <- {"wrongCode"}, MaxTokens <- Few, Ids <- OneId, Faults <- {"crash"}

\* Overlapping claims of a pairing whose device is being revoked.
Claims == INSTANCE Pairing WITH
  Ops <- {"revoke"}, MaxTokens <- Few, Devices <- OneDevice, Faults <- {}

\* A grant and its refreshes while the account is suspended, reinstated and logged out
\* everywhere.
Ousted == INSTANCE McpGrants WITH
  OwnerOps <- {"suspend", "logoutAll"}, Credentials <- {1, 2, 3}, Grants <- {1}, Codes <- {11},
  Scopes <- OneId, MaxRenders <- 1, McpFaults <- {"lost"}

\* Commands are proposed and confirmed, a proposal by several calls.
Commands == INSTANCE ToolCalls WITH Tools <- {"command"}, Dispatchers <- {}

\* Mails are put on the queue and sent.
Posted == INSTANCE ToolCalls WITH
  Tools <- {"send_email"}, ToolUses <- {1, 2}, Proposals <- {}, Arguments <- {}

MCInit ==
  /\ PairingInit /\ McpInit /\ ToolsInit
  /\ scenario \in {"tokens", "outs", "bindings", "names", "codes", "claims", "grants",
                   "ousted", "commands", "posted"}

\* Random names are interchangeable: they are taken in order.
InOrder ==
  /\ \A c, d \in Codes : c < d /\ code[c] = NoCode => code[d] = NoCode
  /\ \A g, h \in Grants : g < h /\ grant[g] = NoGrant => grant[h] = NoGrant
  /\ \A t, u \in Credentials : t < u /\ credential[t] = NoCredential => credential[u] = NoCredential

MCNext ==
  /\ UNCHANGED scenario
  /\ \/ /\ \/ scenario = "tokens" /\ Tokens!Next
           \/ scenario = "outs" /\ Outs!Next
           \/ scenario = "bindings" /\ Bindings!Next
           \/ scenario = "names" /\ Names!Next
           \/ scenario = "codes" /\ WrongCodes!Next
           \/ scenario = "claims" /\ Claims!Next
        /\ UNCHANGED <<mcpVars, toolVars>>
     \/ /\ \/ scenario = "grants" /\ McpNext
           \/ scenario = "ousted" /\ Ousted!McpNext
        /\ InOrder' /\ UNCHANGED <<allVars, toolVars>>
     \/ /\ \/ scenario = "commands" /\ Commands!ToolsNext
           \/ scenario = "posted" /\ Posted!ToolsNext
        /\ UNCHANGED <<allVars, mcpVars>>

MCSpec == MCInit /\ [][MCNext]_<<allVars, mcpVars, toolVars, scenario>>

Symmetry == Permutations(Procs)
===============================================================================
