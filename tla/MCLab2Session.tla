----------------------------- MODULE MCLab2Session -----------------------------
\* A small instance of Lab2Session for TLC.
EXTENDS Lab2Session
==============================================================================
