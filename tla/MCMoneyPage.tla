------------------------------ MODULE MCMoneyPage ------------------------------
EXTENDS MoneyPage

\* The scan also starts by itself, and the list is also loaded with the page.
Handlers == {"open", "analyze", "pipeline", "validate", "validate_run", "refresh",
             "accept", "save_and_accept", "review"}
================================================================================
