---- MODULE MCStartup ----
EXTENDS Startup
CONSTANTS c1, c2
====
