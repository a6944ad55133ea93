------------------------------ MODULE MCLab3Chat ------------------------------
\* A small instance of Lab3Chat for TLC.
EXTENDS Lab3Chat, TLC

\* Users and workers are interchangeable; only safety is checked.
Symmetry == Permutations(Users) \cup Permutations(Workers)
==============================================================================
