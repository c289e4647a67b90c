------------------------------ MODULE MCAuditRun ------------------------------
(* A chain of two models, one of them for small prompts only, and a third    *)
(* that events may ask for.                                                  *)
EXTENDS AuditRun

CONSTANTS flash, gemma, deep
=============================================================================
