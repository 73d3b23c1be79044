---------------------------- MODULE MCEditorSession ----------------------------
EXTENDS EditorSession, TLC

================================================================================
