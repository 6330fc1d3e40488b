--------------------------- MODULE LlamaGeneration ---------------------------
(***************************************************************************)
(* The sampling loop of LlamaCppAdapter (caw-adapters/src/llama_cpp.rs):   *)
(* a prompt is decoded into the KV cache, tokens are sampled, and recalled *)
(* text is injected between them.  llama_decode may fail at any time, with *)
(* some of the tokens it was given already in the cache.                   *)
(***************************************************************************)
EXTENDS Naturals, Sequences, SequencesExt, FiniteSetsExt

CONSTANTS
    NCtx,               \* cells of the KV cache
    MaxNewTokens,       \* max_new_tokens of the configuration
    CheckInterval,
    WindowSize,
    PromptSizes,        \* tokens a prompt may have
    InjectionSizes      \* tokens an injection may have, 0 included

ASSUME LlamaAssumption ==
    /\ NCtx \in Nat /\ MaxNewTokens \in Nat
    /\ CheckInterval \in Nat \ {0} /\ WindowSize \in Nat \ {0}
    /\ PromptSizes \subseteq Nat /\ InjectionSizes \subseteq Nat

VARIABLES
    phase,      \* idle, sampling, checking, done, failed
    cells,      \* cells of the cache that hold a token
    kvUsed,     \* the loop's own count of them
    prompt,     \* tokens of the prompt
    limit,      \* tokens still allowed by the loop
    output,     \* the text so far: sampled and injected tokens
    window,     \* the sliding window of sampled tokens
    sinceCheck, \* tokens_since_check
    missing     \* history: injected tokens in the text whose decode failed

llamaVars == <<phase, cells, kvUsed, prompt, limit, output, window, sinceCheck, missing>>

GenInit ==
    /\ phase = "idle" /\ cells = 0 /\ kvUsed = 0 /\ prompt = 0 /\ limit = 0
    /\ output = << >> /\ window = << >> /\ sinceCheck = 0
    /\ missing = 0

(* llama_decode fails at the latest when the cache has no cell left.       *)
Fits(n) == cells + n <= NCtx

(* Clear the cache, tokenize the prompt and decode it.                     *)
Prefill ==
    /\ phase = "idle"
    /\ \/ \E n \in PromptSizes :
            /\ n > 0 /\ n <= NCtx
            /\ phase' = "sampling"
            /\ cells' = n /\ kvUsed' = n /\ prompt' = n
            /\ limit' = Min({MaxNewTokens, NCtx - n})
       \/ phase' = "failed" /\ UNCHANGED <<cells, kvUsed, prompt, limit>>
    /\ UNCHANGED <<output, window, sinceCheck, missing>>

Slide(pieces) == IF Len(pieces) > WindowSize THEN Tail(pieces) ELSE pieces

(* One sampled token; the text gets it before it is decoded.               *)
Sample ==
    /\ phase = "sampling" /\ limit > 0
    /\ output' = Append(output, "sampled")
    /\ window' = Slide(Append(window, Len(output) + 1))
    /\ kvUsed' = kvUsed + 1
    /\ limit' = limit - 1
    /\ \/ /\ Fits(1)
          /\ cells' = cells + 1
          /\ IF sinceCheck + 1 >= CheckInterval
             THEN phase' = "checking" /\ sinceCheck' = 0
             ELSE phase' = "sampling" /\ sinceCheck' = sinceCheck + 1
       \/ phase' = "done" /\ sinceCheck' = sinceCheck + 1 /\ UNCHANGED cells
    /\ UNCHANGED <<prompt, missing>>

Overflows(n) == kvUsed + n >= NCtx

Shown(n) == output' = output \o [i \in 1 .. n |-> "injected"]

(* The first k of n tokens are in the cache; the loop only counts all n.   *)
Decoded(k, n) ==
    /\ Fits(k)
    /\ cells' = cells + k
    /\ kvUsed' = IF k = n THEN kvUsed + n ELSE kvUsed
    /\ missing' = missing + (n - k)

\* Mutant of Inject: the text is shown before the overflow test.
InjectShownFirst ==
    /\ phase = "checking"
    /\ \E n \in InjectionSizes :
        /\ Shown(n)
        /\ IF n = 0 \/ Overflows(n) THEN UNCHANGED <<cells, kvUsed, missing>>
           ELSE \E k \in 0 .. n : Decoded(k, n)
    /\ phase' = "sampling"
    /\ UNCHANGED <<prompt, limit, window, sinceCheck>>

(* The callback may fail, find nothing, or return text to inject, which is *)
(* shown and then decoded; if that fails, generation goes on all the same. *)
Inject ==
    /\ phase = "checking"
    /\ \E n \in InjectionSizes :
        IF n = 0 \/ Overflows(n)
        THEN UNCHANGED <<output, cells, kvUsed, missing>>
        ELSE Shown(n) /\ \E k \in 0 .. n : Decoded(k, n)
    /\ phase' = "sampling"
    /\ UNCHANGED <<prompt, limit, window, sinceCheck>>

(* An injection that cannot be tokenized ends the generation.              *)
InjectFails ==
    /\ phase = "checking"
    /\ phase' = "failed"
    /\ UNCHANGED <<cells, kvUsed, prompt, limit, output, window, sinceCheck, missing>>

(* End of generation, or the limit of the loop.                            *)
Stop ==
    /\ phase = "sampling"
    /\ phase' = "done"
    /\ UNCHANGED <<cells, kvUsed, prompt, limit, output, window, sinceCheck, missing>>

GenNext == Prefill \/ Sample \/ Inject \/ InjectFails \/ Stop

GenSpec == GenInit /\ [][GenNext]_llamaVars

-----------------------------------------------------------------------------
(* What the caller is shown is what the model has in its cache: between    *)
(* two tokens the cells hold the prompt and exactly the text so far,       *)
(* whichever injections were skipped, short of the tokens of injections    *)
(* whose decode failed.  Until one did, the loop's count of the cells is   *)
(* right; afterwards it may only be too low, never too high.               *)
CacheHoldsOutput ==
    phase \in {"sampling", "checking"} =>
        /\ cells + missing = prompt + Len(output)
        /\ kvUsed <= cells
        /\ missing = 0 => kvUsed = cells

=============================================================================
