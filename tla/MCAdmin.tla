------------------------------- MODULE MCAdmin -------------------------------
EXTENDS Admin

CONSTANTS c1, c2

Get(path) == [path |-> path, method |-> "GET"]
Post(path) == [path |-> path, method |-> "POST"]

\* Two clients on the host that may ask for the diagnostics at once.
MCRequest(c) ==
    IF c = c1 THEN {Get("/kubert.json"), Get("user")}
    ELSE {Get("/kubert.json"), Post("/kubert.json"), Get("/ready")}
=============================================================================
