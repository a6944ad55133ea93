------------------------------ MODULE MCLab4Chat ------------------------------
\* A small instance of Lab4Chat for TLC.
EXTENDS Lab4Chat
==============================================================================
