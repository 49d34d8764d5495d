-------------------------- MODULE MCConcurrencyGate --------------------------
(* One provider and the browser: a search, which a JoinSet may abort, and  *)
(* the chapter list of a check of one provider, which it may not, of a     *)
(* provider that needs the browser, and an image download.                 *)
EXTENDS ConcurrencyGate, TLC

CONSTANTS provider, search, chapters, download, ProviderWorkers

MCProviderOf == [c \in Callers |-> IF c = download THEN NoGate ELSE provider]
MCLimit      == [g \in Gates |-> IF g = Browser THEN 1 ELSE ProviderWorkers]
==============================================================================
