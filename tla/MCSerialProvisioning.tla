------------------------- MODULE MCSerialProvisioning -------------------------
(* Small instances of SerialProvisioning for TLC.                          *)
EXTENDS SerialProvisioning

CONSTANTS llm1, llm2, odd, old, new, llm, rerank

TheSlots == {llm1, llm2, odd}
TheTypes == [s \in TheSlots |-> IF s = odd THEN rerank ELSE llm]

Use(s, k) == [slot |-> s, secret |-> k, asDefault |-> FALSE, wellFormed |-> TRUE]
UseAsDefault(s, k) == [Use(s, k) EXCEPT !.asDefault = TRUE]
Broken(s, k) == [Use(s, k) EXCEPT !.wellFormed = FALSE]

\* One model; the same model twice with another secret and then a second
\* default; the order of the defaults swapped; a model Dify stores under
\* another name; a malformed entry behind a good one; no entry; no JSON.
TheConfigs ==
    { <<UseAsDefault(llm1, old)>>,
      <<Use(llm1, old), UseAsDefault(llm1, new), UseAsDefault(llm2, new)>>,
      <<UseAsDefault(llm2, old), UseAsDefault(llm1, new)>>,
      <<Use(odd, old)>>,
      <<Use(llm2, new), Broken(llm1, new)>>,
      <<>>,
      Unparsable }

\* An empty database; one with an older credential in use and a newer one;
\* one with two of which none is in use.
Empty ==
    [rows |-> [s \in TheSlots |-> <<>>], active |-> [s \in TheSlots |-> 0],
     enabled |-> [s \in TheSlots |-> FALSE], default |-> [t \in {llm, rerank} |-> NoSlot]]
OlderInUse ==
    [Empty EXCEPT !.rows[llm1] = <<old, new>>, !.active[llm1] = 1, !.enabled[llm1] = TRUE,
                  !.default[llm] = llm1]
NoneInUse == [Empty EXCEPT !.rows[llm1] = <<old, new>>]

TheStores == {Empty, OlderInUse, NoneInUse}
OnlyEmpty == {Empty}

\* MODEL_SETTINGS absent or enabling everything, or not JSON.
PlainSettings == {{}, Unparsable}
\* MODEL_SETTINGS with enabled: false for one model.
DisablingSettings == {{}, {llm1}}
=============================================================================
