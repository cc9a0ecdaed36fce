------------------------------ MODULE MCMutex ------------------------------
EXTENDS Mutex
=============================================================================
