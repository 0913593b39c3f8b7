---- MODULE MCConfigOwnership ----
EXTENDS ConfigOwnership
====
